---- MODULE Spec2Model ----
(***************************************************************************)
(* Model of the notebooks of sample-advanced-rag-using-bedrock-and-        *)
(* sagemaker.                                                              *)
(*                                                                         *)
(* Spec / LiveSpec : the structured-data notebook (S3 bucket, Glue        *)
(*   database, CSV upload, Athena external tables, validation queries)     *)
(*   with its helper execute_athena_query, run cell by cell from top to    *)
(*   bottom against the remote services.                                   *)
(* FilterSpec : the metadata filtering notebook: query_financial_data      *)
(*   builds one filter expression from its optional criteria and the       *)
(*   knowledge base applies it to a chunk.                                 *)
(* ConfigSpec : the variables file shared by the notebooks: every          *)
(*   notebook loads it, the SageMaker notebook saves the endpoint name to  *)
(*   it and a later notebook reads that name.                              *)
(* StrandsSpec : the cells of the Strands notebook that bind agent and     *)
(*   model and the prompts and tool calls that read them.                  *)
(* LocationSpec : the names the structured-data notebook formats for its   *)
(*   bucket, the uploaded objects, the table locations and the query       *)
(*   output.                                                               *)
(* RequestSpec : the cells of the guardrails, the filtering and the query  *)
(*   decomposition notebook that lead to a retrieve-and-generate request.  *)
(* CostSpec : the chunking notebooks run one after the other and the cost  *)
(*   table they load, update and save.                                     *)
(* DiagramSpec : the diagram cell of the Strands notebook: the path is     *)
(*   taken from the agent's answer and the image at it is displayed.       *)
(***************************************************************************)
EXTENDS Integers, Sequences, FiniteSets, TLC

\* ---------------------------------------------------------------- bounds
\* Largest page number of a chunk and of a page criterion.
MaxPage == 3

\* Largest number of passes of the wait loop of one call that find a state
\* the loop does not end on.
MaxPolls == 3

\* ------------------------------------------------------ program constants
\* time.sleep(1)
SleepSeconds == 1

\* if state in ['SUCCEEDED', 'FAILED', 'CANCELLED']
LoopExitStates == {"SUCCEEDED", "FAILED", "CANCELLED"}

\* .get('StateChangeReason', 'No error message available')
NoErrorMessage == "No error message available"

\* field.get('VarCharValue', '')
EmptyString == ""

\* --------------------------------------------------- the remote services
\* States of an Athena query execution as the service reports them.
QueryStates == {"QUEUED", "RUNNING", "SUCCEEDED", "FAILED", "CANCELLED"}
FinalStates == {"SUCCEEDED", "FAILED", "CANCELLED"}

\* Status without a StateChangeReason key.
NoReason == "<no StateChangeReason>"
Reasons == {"SYNTAX_ERROR", "Query cancelled by user"}

\* A Datum without a VarCharValue key.
NoValue == "<no VarCharValue>"

\* Result sets the service can page back: a sequence of pages, a page is a
\* sequence of rows, a row is a sequence of Datum values.  A CREATE TABLE
\* statement has no rows; a SELECT has a header row and then its data rows.
StatementPages == { <<>>, << <<>> >> }

SelectPages ==
    { << << <<"order_id", "market">> >> >>,
      << << <<"order_id", "market">>, <<"o1", NoValue>> >> >>,
      << << <<"order_id", "market">> >>, << <<"o1", "EU">>, <<NoValue, "US">> >> >> }

ResultPages(query) ==
    IF query \in {"orders_sql", "returns_sql"} THEN StatementPages ELSE SelectPages

\* ------------------------------------------------------------- the notebook
\* The cells with an effect, in notebook order.
Cells == <<"bucket", "database", "upload", "create_tables", "validate">>

\* Cells that call execute_athena_query, and the query of each call.
AthenaCalls ==
    [create_tables |-> <<"orders_sql", "returns_sql">>,
     validate      |-> <<"select_orders", "select_returns">>]

AthenaCells == DOMAIN AthenaCalls

VARIABLES
    cell,                \* cell being run, or "end" / "aborted"
    failedCell,          \* cell whose exception stopped the run, or "none"
    callIdx,             \* which call of the current cell is running
    pc,                  \* position inside execute_athena_query
    remote,              \* Athena: QueryExecutionId -> [query, state, reason]
    query_execution_id,  \* local of execute_athena_query
    response,            \* local: Status of the last get_query_execution
    results,             \* local: rows collected from the paginator
    error,               \* exception that left the running cell, or "none"
    out,                 \* what the cells printed or displayed, in order
    observed,            \* history: Status seen by each poll of this call
    polledIds,           \* history: ids passed to get_query_execution
    trace,               \* history: remote calls, sleeps and output of this call
    slept,               \* history: seconds slept in this call
    caught,              \* history: exceptions caught by an except clause
    bucketExists,        \* S3: the bucket exists and is owned by the caller
    dbExists,            \* Glue: database "retail" exists
    tables,              \* Glue: external tables of the database
    objects,             \* S3: CSV objects in the bucket
    glueBound,           \* kernel: the name glue_client is bound
    bucketOutcome,       \* history: what create_bucket did
    dbOutcome,           \* history: what create_database did
    existedBefore,       \* history: tables that existed when the run began
    resourcesBefore,     \* history: bucket, database, objects at the start
    fetched,             \* history: the pages the paginator returned
    criteria,            \* filtering notebook: the optional criteria passed
    metadata_filter,     \* filtering notebook: the filter expression built
    chunk,               \* knowledge base: metadata of a document chunk
    matched,             \* knowledge base: whether the chunk passed the filter
    fpc,                 \* filtering notebook: position of the query cell
    std_call,            \* filtering notebook: a call of create_standard_filter
    one_group_filter,    \* filtering notebook: the filter that call returned
    nb,                  \* configuration: the notebook whose kernel runs
    cpc,                 \* configuration: next configuration cell of nb
    variablesFile,       \* configuration: content of ../variables.json
    variables,           \* configuration: the kernel's mapping "variables"
    llm_endpoint_name,   \* configuration: endpoint name of notebook 1.7
    cfgError,            \* configuration: exception that stopped the notebook
    runs,                \* configuration: notebook runs started so far
    fileReads,           \* history: reads of the file in this run
    fileWrites,          \* history: writes of the file, [nb, kind, content]
    scell,               \* Strands notebook: index of the next cell, 0 = off
    agent,               \* Strands notebook: tools of the object named agent
    model,               \* Strands notebook: model id of the global "model"
    defined,             \* Strands notebook: the @tool functions defined
    orchestrator,        \* Strands notebook: tools of the orchestrator
    toolCalls,           \* history: [tool, model] of each tool invocation
    prompts,             \* history: [cell, tools] of each agent(prompt) call
    lpc,                 \* data-loading names: the next cell
    account_id,          \* data-loading names: account of the caller
    region,              \* data-loading names: region of the session
    s3_bucket_name,      \* data-loading names: global of the variables cell
    s3_output,           \* data-loading names: global of the variables cell
    sqlLocation,         \* data-loading names: LOCATION of each SQL string
    createdBucket,       \* S3: Bucket argument of create_bucket
    uploaded,            \* S3: URIs the CSV files were written to
    tableLocation,       \* Glue: LOCATION of each external table
    queryOutput,         \* Athena: OutputLocation of the queries
    rnb,                 \* requests: the notebook whose kernel runs
    rcell,               \* requests: index of the next cell of rnb
    rfile,               \* requests: content of ../variables.json
    kernel,              \* requests: the globals of the kernel
    calls,               \* history: arguments of the guardrails calls
    requests,            \* history: the requests sent, in order
    cnb,                 \* cost table: the chunking notebook whose kernel runs
    ccell,               \* cost table: index of the next cost cell of cnb
    costsCsv,            \* cost table: the rows of the CSV file
    df_costs,            \* cost table: the dataframe of the kernel
    new_row,             \* cost table: the row this run built
    costRuns,            \* cost table: notebook runs started so far
    rowsEarlier,         \* history: the last row each earlier run built
    loadedTable,         \* history: what load_df_from_csv returned in this run
    dcell,               \* diagram cell: position in cell b553ab8d
    final_agent_response_text, \* diagram cell: local of that name
    stated,              \* agent: the path the answer states, if any
    fileSystem,          \* kernel: the paths that exist, and what is there
    diagram_path,        \* diagram cell: local of that name
    reported,            \* history: the outcome messages printed
    displayed,           \* history: the images displayed
    diagramError         \* diagram cell: whether display raised

vars == << cell, failedCell, callIdx, pc, remote, query_execution_id,
           response, results, error, out, observed, polledIds, trace, slept,
           caught, bucketExists, dbExists, tables, objects, glueBound,
           bucketOutcome, dbOutcome, existedBefore, resourcesBefore, fetched,
           criteria, metadata_filter, chunk, matched, fpc, std_call,
           one_group_filter, nb, cpc, variablesFile, variables,
           llm_endpoint_name, cfgError, runs, fileReads, fileWrites, scell,
           agent, model, defined, orchestrator, toolCalls, prompts, lpc,
           account_id, region, s3_bucket_name, s3_output, sqlLocation,
           createdBucket, uploaded, tableLocation, queryOutput, rnb, rcell,
           rfile, kernel, calls, requests, cnb, ccell, costsCsv, df_costs,
           new_row, costRuns, rowsEarlier, loadedTable, dcell,
           final_agent_response_text, stated, fileSystem, diagram_path,
           reported, displayed, diagramError >>

callHist == << observed, polledIds, trace, slept >>

filterVars == << criteria, metadata_filter, chunk, matched, fpc, std_call,
                 one_group_filter >>

athenaVars == << cell, failedCell, callIdx, pc, remote, query_execution_id,
                 response, results, error, out, observed, polledIds, trace,
                 slept, caught, bucketExists, dbExists, tables, objects,
                 glueBound, bucketOutcome, dbOutcome, existedBefore, resourcesBefore, fetched >>

configVars == << nb, cpc, variablesFile, variables, llm_endpoint_name,
                 cfgError, runs, fileReads, fileWrites >>

strandsVars == << scell, agent, model, defined, orchestrator, toolCalls,
                  prompts >>

locationVars == << lpc, account_id, region, s3_bucket_name, s3_output,
                   sqlLocation, createdBucket, uploaded, tableLocation,
                   queryOutput >>

requestVars == << rnb, rcell, rfile, kernel, calls, requests >>

costVars == << cnb, ccell, costsCsv, df_costs, new_row, costRuns,
               rowsEarlier, loadedTable >>

diagramVars == << dcell, final_agent_response_text, stated, fileSystem,
                  diagram_path, reported, displayed, diagramError >>

\* What the cells of one notebook leave alone: the other notebooks.
nonAthenaVars == << filterVars, configVars, strandsVars, locationVars,
                    requestVars, costVars, diagramVars >>

nonFilterVars == << athenaVars, configVars, strandsVars, locationVars,
                    requestVars, costVars, diagramVars >>

nonConfigVars == << athenaVars, filterVars, strandsVars, locationVars,
                    requestVars, costVars, diagramVars >>

nonStrandsVars == << athenaVars, filterVars, configVars, locationVars,
                     requestVars, costVars, diagramVars >>

nonLocationVars == << athenaVars, filterVars, configVars, strandsVars,
                      requestVars, costVars, diagramVars >>

nonRequestVars == << athenaVars, filterVars, configVars, strandsVars,
                     locationVars, costVars, diagramVars >>

nonCostVars == << athenaVars, filterVars, configVars, strandsVars,
                  locationVars, requestVars, diagramVars >>

nonDiagramVars == << athenaVars, filterVars, configVars, strandsVars,
                     locationVars, requestVars, costVars >>

\* ----------------------------------------------------------------- helpers
CellAfter(c) ==
    IF c = "bucket" THEN "database"
    ELSE IF c = "database" THEN "upload"
    ELSE IF c = "upload" THEN "create_tables"
    ELSE IF c = "create_tables" THEN "validate"
    ELSE "end"

Printed(c, text) == [cell |-> c, kind |-> "print", text |-> text,
                     columns |-> <<>>, rows |-> <<>>]

Displayed(c, cols, rws) == [cell |-> c, kind |-> "table", text |-> "",
                            columns |-> cols, rows |-> rws]

NoResponse == [state |-> "<none>", reason |-> NoReason]

CurrentQuery == AthenaCalls[cell][callIdx]

\* ------------------------------------------------- cells before the queries
BucketCreatedMsg == "S3 bucket created"
BucketExistsMsg == "S3 bucket already exists"
DatabaseCreatedMsg == "Successfully created database: retail"
DatabaseExistsMsg == "Database retail already exists"
HeadMsg == "df.head(5)"

OrdersKey == "data/orders/orders.csv"
ReturnsKey == "data/returns/returns.csv"

\* What the services may answer to the create calls.
CreateBucketOutcomes(exists) ==
    IF exists THEN {"BucketAlreadyOwnedByYou", "OtherError"}
              ELSE {"created", "OtherError"}

CreateDatabaseOutcomes(exists) ==
    IF exists THEN {"AlreadyExistsException", "OtherError"}
              ELSE {"created", "OtherError"}

\* Variant of the bucket cell without the except clause.
BucketCell_NoExcept(clientOk, outcome) ==
    IF ~clientOk
    THEN [prints |-> <<>>, raises |-> "ClientCreationError", caught |-> "none"]
    ELSE IF outcome = "created"
    THEN [prints |-> <<BucketCreatedMsg>>, raises |-> "none", caught |-> "none"]
    ELSE [prints |-> <<>>, raises |-> outcome, caught |-> "none"]

\* Variant of the bucket cell with the success message after the try block.
BucketCell_SuccessAfterTry(clientOk, outcome) ==
    IF ~clientOk
    THEN [prints |-> <<>>, raises |-> "ClientCreationError", caught |-> "none"]
    ELSE IF outcome = "created"
    THEN [prints |-> <<BucketCreatedMsg>>, raises |-> "none", caught |-> "none"]
    ELSE IF outcome = "BucketAlreadyOwnedByYou"
    THEN [prints |-> <<BucketExistsMsg, BucketCreatedMsg>>, raises |-> "none",
          caught |-> outcome]
    ELSE [prints |-> <<>>, raises |-> outcome, caught |-> "none"]

\* Cell bb23ae6a: the client is created outside the try block, the create
\* call and the success message inside it, one except clause.
BucketCell(clientOk, outcome) ==
    IF ~clientOk
    THEN [prints |-> <<>>, raises |-> "ClientCreationError", caught |-> "none"]
    ELSE IF outcome = "created"
    THEN [prints |-> <<BucketCreatedMsg>>, raises |-> "none", caught |-> "none"]
    ELSE IF outcome = "BucketAlreadyOwnedByYou"
    THEN [prints |-> <<BucketExistsMsg>>, raises |-> "none", caught |-> outcome]
    ELSE [prints |-> <<>>, raises |-> outcome, caught |-> "none"]

\* Cell 27da3744: the client is created inside the try block, and the except
\* clause names glue_client, which is unbound when the client was never made.
DatabaseCell(clientOk, bound, outcome) ==
    IF ~clientOk
    THEN [prints |-> <<>>,
          raises |-> IF bound THEN "ClientCreationError" ELSE "NameError",
          caught |-> "none"]
    ELSE IF outcome = "created"
    THEN [prints |-> <<DatabaseCreatedMsg>>, raises |-> "none", caught |-> "none"]
    ELSE IF outcome = "AlreadyExistsException"
    THEN [prints |-> <<DatabaseExistsMsg>>, raises |-> "none", caught |-> outcome]
    ELSE [prints |-> <<>>, raises |-> outcome, caught |-> "none"]

PrintAll(c, texts) == [i \in 1..Len(texts) |-> Printed(c, texts[i])]

\* The run leaves cell c: on to the next cell, or stopped by exception e.
LeaveCell(c, e) ==
    /\ error' = e
    /\ cell' = IF e = "none" THEN CellAfter(c) ELSE "aborted"
    /\ failedCell' = IF e = "none" THEN failedCell ELSE c

RunBucketCell ==
    /\ cell = "bucket"
    /\ \E clientOk \in BOOLEAN, outcome \in CreateBucketOutcomes(bucketExists) :
         LET r == BucketCell(clientOk, outcome) IN
         /\ bucketOutcome' = IF clientOk THEN outcome ELSE "not called"
         /\ bucketExists' = (bucketExists \/ (clientOk /\ outcome = "created"))
         /\ out' = out \o PrintAll("bucket", r.prints)
         /\ caught' = IF r.caught = "none" THEN caught
                      ELSE caught \cup {<<"bucket", r.caught>>}
         /\ LeaveCell("bucket", r.raises)
    /\ UNCHANGED << callIdx, pc, remote, query_execution_id, response, results,
                    callHist, dbExists, tables, objects, glueBound, dbOutcome,
                    existedBefore, resourcesBefore, fetched,
                    nonAthenaVars >>

RunDatabaseCell ==
    /\ cell = "database"
    /\ \E clientOk \in BOOLEAN, outcome \in CreateDatabaseOutcomes(dbExists) :
         LET r == DatabaseCell(clientOk, glueBound, outcome) IN
         /\ dbOutcome' = IF clientOk THEN outcome ELSE "not called"
         /\ dbExists' = (dbExists \/ (clientOk /\ outcome = "created"))
         /\ glueBound' = (glueBound \/ clientOk)
         /\ out' = out \o PrintAll("database", r.prints)
         /\ caught' = IF r.caught = "none" THEN caught
                      ELSE caught \cup {<<"database", r.caught>>}
         /\ LeaveCell("database", r.raises)
    /\ UNCHANGED << callIdx, pc, remote, query_execution_id, response, results,
                    callHist, bucketExists, tables, objects, bucketOutcome,
                    existedBefore, resourcesBefore, fetched,
                    nonAthenaVars >>

\* Cell 905121f0: both workbooks are read (each prints its head), then both
\* CSV files are written; a failing call raises out of the cell.
RunUploadCell ==
    /\ cell = "upload"
    /\ \E outcome \in {"ok", "orders_read_error", "returns_read_error",
                       "orders_write_error", "returns_write_error"} :
         /\ out' = out \o PrintAll("upload",
                      IF outcome = "orders_read_error" THEN <<>>
                      ELSE IF outcome = "returns_read_error" THEN <<HeadMsg>>
                      ELSE <<HeadMsg, HeadMsg>>)
         /\ objects' = IF outcome = "ok" THEN objects \cup {OrdersKey, ReturnsKey}
                       ELSE IF outcome = "returns_write_error"
                       THEN objects \cup {OrdersKey}
                       ELSE objects
         /\ LeaveCell("upload", IF outcome = "ok" THEN "none" ELSE outcome)
    /\ UNCHANGED << callIdx, pc, remote, query_execution_id, response, results,
                    callHist, caught, bucketExists, dbExists, tables,
                    glueBound, bucketOutcome, dbOutcome, existedBefore, resourcesBefore, fetched,
                    nonAthenaVars >>

\* ------------------------------------------------------ execute_athena_query
SuccessMsg == "Successfully executed."
QueryFailedPrefix == "Query failed: "

\* Variants of the break test: one that also ends the loop on RUNNING,
\* one that gives up after two polls, one that does not know CANCELLED.
LoopExit_OnRunning(state) == state # "QUEUED"

LoopExit_Timeout(state) == state \in LoopExitStates \/ Len(observed) >= 2

LoopExit_NoCancelled(state) == state \in {"SUCCEEDED", "FAILED"}

\* if state in ['SUCCEEDED', 'FAILED', 'CANCELLED']: break
LoopExit(state) == state \in LoopExitStates

\* Variant that reads the reason without a default.
error_message_NoDefault(status) == status.reason

\* response['QueryExecution']['Status'].get('StateChangeReason', ...)
error_message(status) ==
    IF status.reason = NoReason THEN NoErrorMessage ELSE status.reason

\* f"Query failed: {error_message}"
QueryFailed(status) == QueryFailedPrefix \o error_message(status)

\* [field.get('VarCharValue', '') for field in row['Data']]
RowValues(row) ==
    [i \in 1..Len(row) |-> IF row[i] = NoValue THEN EmptyString ELSE row[i]]

RECURSIVE PageRows(_)
PageRows(page) ==
    IF page = <<>> THEN <<>>
    ELSE <<RowValues(Head(page))>> \o PageRows(Tail(page))

\* for page in paginator.paginate(...): for row in page[...]: results.append
RECURSIVE CollectRows(_)
CollectRows(pages) ==
    IF pages = <<>> THEN <<>>
    ELSE PageRows(Head(pages)) \o CollectRows(Tail(pages))

\* Variant that keeps the header row among the data rows.
ShowResults_KeepHeader(c, res) ==
    IF res # <<>> THEN Displayed(c, Head(res), res)
    ELSE Printed(c, SuccessMsg)

\* if results: display(DataFrame(results[1:], columns=results[0]))
\* else: print("Successfully executed.")
ShowResults(c, res) ==
    IF res # <<>> THEN Displayed(c, Head(res), Tail(res))
    ELSE Printed(c, SuccessMsg)

\* A cell calls execute_athena_query: fresh locals.
EnterCall ==
    /\ cell \in AthenaCells
    /\ pc = "idle"
    /\ pc' = "start"
    /\ query_execution_id' = 0
    /\ response' = NoResponse
    /\ results' = <<>>
    /\ observed' = <<>>
    /\ polledIds' = {}
    /\ trace' = <<>>
    /\ slept' = 0
    /\ fetched' = <<>>
    /\ UNCHANGED << cell, failedCell, callIdx, remote, error, out, caught,
                    bucketExists, dbExists, tables, objects, glueBound,
                    bucketOutcome, dbOutcome, existedBefore, resourcesBefore, nonAthenaVars >>

\* athena_client.start_query_execution(...); the id is the one it returns.
StartQuery ==
    /\ pc = "start"
    /\ remote' = Append(remote, [query |-> CurrentQuery, state |-> "QUEUED",
                                 reason |-> NoReason])
    /\ query_execution_id' = Len(remote) + 1
    /\ trace' = Append(trace, "start_query_execution")
    /\ pc' = "poll"
    /\ UNCHANGED << cell, failedCell, callIdx, response, results, error, out,
                    observed, polledIds, slept, caught, bucketExists, dbExists,
                    tables, objects, glueBound, bucketOutcome, dbOutcome,
                    existedBefore, resourcesBefore, fetched,
                    nonAthenaVars >>

\* Variant of the loop that sleeps before the break test.
Poll_SleepBeforeTest ==
    /\ pc = "poll"
    /\ \/ Len(observed) < MaxPolls
       \/ LoopExit(remote[query_execution_id].state)
    /\ LET status == [state  |-> remote[query_execution_id].state,
                      reason |-> remote[query_execution_id].reason] IN
       /\ response' = status
       /\ observed' = Append(observed, status)
       /\ pc' = IF LoopExit(status.state) THEN "branch" ELSE "poll"
    /\ polledIds' = polledIds \cup {query_execution_id}
    /\ trace' = trace \o <<"get_query_execution", "sleep">>
    /\ slept' = slept + SleepSeconds
    /\ UNCHANGED << cell, failedCell, callIdx, remote, query_execution_id,
                    results, error, out, caught, bucketExists, dbExists,
                    tables, objects, glueBound, bucketOutcome, dbOutcome,
                    existedBefore, resourcesBefore, fetched,
                    nonAthenaVars >>

\* One pass of the while loop up to the break test.
Poll ==
    /\ pc = "poll"
    /\ \/ Len(observed) < MaxPolls
       \/ LoopExit(remote[query_execution_id].state)
    /\ LET status == [state  |-> remote[query_execution_id].state,
                      reason |-> remote[query_execution_id].reason] IN
       /\ response' = status
       /\ observed' = Append(observed, status)
       /\ pc' = IF LoopExit(status.state) THEN "branch" ELSE "sleep"
    /\ polledIds' = polledIds \cup {query_execution_id}
    /\ trace' = Append(trace, "get_query_execution")
    /\ UNCHANGED << cell, failedCell, callIdx, remote, query_execution_id,
                    results, error, out, slept, caught, bucketExists,
                    dbExists, tables, objects, glueBound, bucketOutcome,
                    dbOutcome, existedBefore, resourcesBefore, fetched,
                    nonAthenaVars >>

\* time.sleep(1), then back to the top of the loop.
Sleep ==
    /\ pc = "sleep"
    /\ trace' = Append(trace, "sleep")
    /\ slept' = slept + SleepSeconds
    /\ pc' = "poll"
    /\ UNCHANGED << cell, failedCell, callIdx, remote, query_execution_id,
                    response, results, error, out, observed, polledIds, caught, bucketExists, dbExists, tables, objects, glueBound,
                    bucketOutcome, dbOutcome, existedBefore, resourcesBefore, fetched,
                    nonAthenaVars >>

\* state == 'SUCCEEDED': all pages of get_query_results are collected.
FetchResults ==
    /\ pc = "branch"
    /\ response.state = "SUCCEEDED"
    /\ \E pages \in ResultPages(remote[query_execution_id].query) :
          /\ fetched' = pages
          /\ results' = CollectRows(pages)
    /\ trace' = Append(trace, "get_query_results")
    /\ pc' = "show"
    /\ UNCHANGED << cell, failedCell, callIdx, remote, query_execution_id,
                    response, error, out, observed, polledIds, slept, caught, bucketExists,
                    dbExists, tables, objects, glueBound, bucketOutcome,
                    dbOutcome, existedBefore, resourcesBefore, nonAthenaVars >>

\* The table is displayed or the message printed, and the call returns.
ShowAndReturn ==
    /\ pc = "show"
    /\ out' = Append(out, ShowResults(cell, results))
    /\ trace' = Append(trace, ShowResults(cell, results).kind)
    /\ pc' = "returned"
    /\ UNCHANGED << cell, failedCell, callIdx, remote, query_execution_id,
                    response, results, error, observed, polledIds, slept, caught, bucketExists,
                    dbExists, tables, objects, glueBound, bucketOutcome,
                    dbOutcome, existedBefore, resourcesBefore, fetched,
                    nonAthenaVars >>

\* Variant that submits the query again instead of raising.
RaiseQueryFailed_Retry ==
    /\ pc = "branch"
    /\ response.state # "SUCCEEDED"
    /\ pc' = "start"
    /\ UNCHANGED << cell, failedCell, callIdx, remote, query_execution_id,
                    response, results, error, out, callHist, caught,
                    bucketExists, dbExists, tables, objects, glueBound,
                    bucketOutcome, dbOutcome, existedBefore, resourcesBefore, fetched,
                    nonAthenaVars >>

\* else: raise Exception(f"Query failed: {error_message}")
RaiseQueryFailed ==
    /\ pc = "branch"
    /\ response.state # "SUCCEEDED"
    /\ error' = QueryFailed(response)
    /\ pc' = "raised"
    /\ UNCHANGED << cell, failedCell, callIdx, remote, query_execution_id,
                    response, results, out, callHist, caught, bucketExists,
                    dbExists, tables, objects, glueBound, bucketOutcome,
                    dbOutcome, existedBefore, resourcesBefore, fetched,
                    nonAthenaVars >>

\* The cell goes on after a call that returned: its next call, or the next
\* cell once its last call is done.
AfterReturn ==
    /\ pc = "returned"
    /\ pc' = "idle"
    /\ IF callIdx < Len(AthenaCalls[cell])
       THEN /\ callIdx' = callIdx + 1
            /\ UNCHANGED << cell, failedCell, error >>
       ELSE /\ callIdx' = 1
            /\ LeaveCell(cell, "none")
    /\ UNCHANGED << remote, query_execution_id, response, results, out,
                    callHist, caught, bucketExists, dbExists, tables, objects,
                    glueBound, bucketOutcome, dbOutcome, existedBefore, resourcesBefore, fetched,
                    nonAthenaVars >>

\* Variant with a try block around each call: the exception is caught, a
\* message is printed and the cell goes on.
AfterRaise_Catch ==
    /\ pc = "raised"
    /\ cell \in AthenaCells
    /\ caught' = caught \cup {<<cell, error>>}
    /\ out' = Append(out, Printed(cell, "Table already exists"))
    /\ pc' = "idle"
    /\ IF callIdx < Len(AthenaCalls[cell])
       THEN /\ callIdx' = callIdx + 1
            /\ UNCHANGED << cell, failedCell >>
            /\ error' = "none"
       ELSE /\ callIdx' = 1
            /\ LeaveCell(cell, "none")
    /\ UNCHANGED << remote, query_execution_id, response, results, callHist,
                    bucketExists, dbExists, tables, objects, glueBound,
                    bucketOutcome, dbOutcome, existedBefore, resourcesBefore, fetched,
                    nonAthenaVars >>

\* The exception of a call leaves the cell (no try block around the calls)
\* and stops the run.
AfterRaise ==
    /\ pc = "raised"
    /\ cell \in AthenaCells
    /\ LeaveCell(cell, error)
    /\ UNCHANGED << callIdx, pc, remote, query_execution_id, response, results,
                    out, callHist, caught, bucketExists, dbExists, tables,
                    objects, glueBound, bucketOutcome, dbOutcome,
                    existedBefore, resourcesBefore, fetched,
                    nonAthenaVars >>

\* ---------------------------------------------------------- the Athena side
\* Table a CREATE EXTERNAL TABLE IF NOT EXISTS statement defines.
TableOf(query) ==
    IF query = "orders_sql" THEN {"orders"}
    ELSE IF query = "returns_sql" THEN {"returns"}
    ELSE {}

NextStates(state) ==
    IF state = "QUEUED" THEN {"RUNNING", "FAILED", "CANCELLED"}
    ELSE IF state = "RUNNING" THEN {"RUNNING", "SUCCEEDED", "FAILED", "CANCELLED"}
    ELSE {}

\* StateChangeReason the service may attach to a state.
ReasonsOf(state) ==
    IF state = "SUCCEEDED" THEN {NoReason}
    ELSE IF state = "RUNNING" THEN {NoReason, "Query is being retried"}
    ELSE Reasons \cup {NoReason}

\* The service changes query execution id to state st with reason rs; a
\* statement that succeeds takes effect (IF NOT EXISTS: an existing table is
\* left as it is).
RemoteSet(id, st, rs) ==
    /\ <<st, rs>> # <<remote[id].state, remote[id].reason>>
    /\ remote' = [remote EXCEPT ![id].state = st, ![id].reason = rs]
    /\ tables' = IF st = "SUCCEEDED" THEN tables \cup TableOf(remote[id].query)
                 ELSE tables
    /\ UNCHANGED << cell, failedCell, callIdx, pc, query_execution_id,
                    response, results, error, out, callHist, caught,
                    bucketExists, dbExists, objects, glueBound, bucketOutcome,
                    dbOutcome, existedBefore, resourcesBefore, fetched,
                    nonAthenaVars >>

\* The query is picked up, or goes on running.
RemoteProgress ==
    \E id \in DOMAIN remote :
       \E st \in NextStates(remote[id].state) \ FinalStates :
          \E rs \in ReasonsOf(st) : RemoteSet(id, st, rs)

\* The query ends.
RemoteFinish ==
    \E id \in DOMAIN remote :
       \E st \in NextStates(remote[id].state) \cap FinalStates :
          \E rs \in ReasonsOf(st) : RemoteSet(id, st, rs)

\* ------------------------------------------- metadata filtering notebook
\* An optional argument: left out, or given with a value.
Absent == [given |-> FALSE]
Given(v) == [given |-> TRUE, isList |-> FALSE, v |-> v, vs |-> <<>>]
GivenList(l) == [given |-> TRUE, isList |-> TRUE, v |-> 0, vs |-> l]

\* Metadata values of the knowledge base the calls of the notebook filter on.
Companies == {"Amazon", "Acme"}
Years == {2022, 2023, 2024}
DocTypes == {"10K Report", "Press Release"}
Pages == 1..MaxPage

\* S3 URIs as sequences of path segments.
DataPrefix == <<"s3Bucket", "data", "pdf_documents">>
Uris == { <<"s3Bucket", "data", "pdf_documents", "report.pdf">>,
          <<"s3Bucket", "pdf_documents", "report.pdf">>,
          <<"s3Bucket", "data">> }

\* Arguments of query_financial_data as the notebook passes them: a company,
\* the list [2023, 2024] or a single year, an S3 prefix; and the further
\* criteria of the list of cell 1a05fe8e.
CompanyArgs == {Absent, Given("Amazon")}
YearArgs == {Absent} \cup {Given(y) : y \in Years}
               \cup {GivenList(<<2023, 2024>>), GivenList(<<2022>>)}
DocTypeArgs == {Absent, Given("10K Report")}
PageArgs == {Absent} \cup {Given(n) : n \in Pages}
PrefixArgs == {Absent, Given(DataPrefix)}

Chunks == [company : Companies, year : Years, docType : DocTypes,
           page : Pages, uri : Uris]

NoCriteria == [company |-> Absent, year |-> Absent, docType |-> Absent,
               min_page |-> Absent, max_page |-> Absent, s3_prefix |-> Absent]

\* Filter expressions: a leaf {field, operator, value}, a node over child
\* filters, or no filter at all.
Leaf(op, key, value) == [op |-> op, key |-> key, value |-> value]
AndAll(children) == [op |-> "andAll", children |-> children]
OrAll(children) == [op |-> "orAll", children |-> children]
NoFilter == [op |-> "none"]

\* Variant that passes a list of years in a single leaf with operator "in".
YearCondition_In(year) ==
    IF ~year.isList THEN Leaf("equals", "year", year.v)
    ELSE Leaf("in", "year", year.vs)

\* Variant that joins the years of a list by AND.
YearCondition_AndAll(year) ==
    IF ~year.isList THEN Leaf("equals", "year", year.v)
    ELSE IF Len(year.vs) = 1 THEN Leaf("equals", "year", year.vs[1])
    ELSE AndAll([i \in 1..Len(year.vs) |-> Leaf("equals", "year", year.vs[i])])

\* A single year is an equality leaf, a list of years an OR-set of equality
\* leaves.
YearCondition(year) ==
    IF ~year.isList THEN Leaf("equals", "year", year.v)
    ELSE IF Len(year.vs) = 1 THEN Leaf("equals", "year", year.vs[1])
    ELSE OrAll([i \in 1..Len(year.vs) |-> Leaf("equals", "year", year.vs[i])])

\* Variant that forgets the S3 prefix.
Conditions_NoPrefix(c) ==
       (IF c.company.given
        THEN <<Leaf("equals", "company", c.company.v)>> ELSE <<>>)
    \o (IF c.year.given THEN <<YearCondition(c.year)>> ELSE <<>>)
    \o (IF c.docType.given
        THEN <<Leaf("equals", "docType", c.docType.v)>> ELSE <<>>)
    \o (IF c.min_page.given
        THEN <<Leaf("greaterThanOrEquals", "page", c.min_page.v)>> ELSE <<>>)
    \o (IF c.max_page.given
        THEN <<Leaf("lessThanOrEquals", "page", c.max_page.v)>> ELSE <<>>)

\* One condition for each criterion that is supplied, none for the others.
Conditions(c) ==
       (IF c.company.given
        THEN <<Leaf("equals", "company", c.company.v)>> ELSE <<>>)
    \o (IF c.year.given THEN <<YearCondition(c.year)>> ELSE <<>>)
    \o (IF c.docType.given
        THEN <<Leaf("equals", "docType", c.docType.v)>> ELSE <<>>)
    \o (IF c.min_page.given
        THEN <<Leaf("greaterThanOrEquals", "page", c.min_page.v)>> ELSE <<>>)
    \o (IF c.max_page.given
        THEN <<Leaf("lessThanOrEquals", "page", c.max_page.v)>> ELSE <<>>)
    \o (IF c.s3_prefix.given
        THEN <<Leaf("startsWith", "uri", c.s3_prefix.v)>> ELSE <<>>)

\* The single filter expression: the conjunction of the conditions; one
\* condition stands alone, no condition gives no filter.
BuildDynamicFilter(c) ==
    LET conds == Conditions(c) IN
    IF conds = <<>> THEN NoFilter
    ELSE IF Len(conds) = 1 THEN conds[1]
    ELSE AndAll(conds)

\* The knowledge base applies a filter expression to the metadata of a chunk.
IsPrefix(p, u) == Len(p) <= Len(u) /\ SubSeq(u, 1, Len(p)) = p

MatchesLeaf(f, ch) ==
    IF f.op = "equals" THEN ch[f.key] = f.value
    ELSE IF f.op = "greaterThanOrEquals" THEN ch[f.key] >= f.value
    ELSE IF f.op = "lessThanOrEquals" THEN ch[f.key] <= f.value
    ELSE IF f.op = "startsWith" THEN IsPrefix(f.value, ch[f.key])
    ELSE FALSE

RECURSIVE Matches(_, _)
Matches(f, ch) ==
    IF f.op = "none" THEN TRUE
    ELSE IF f.op = "andAll"
    THEN \A i \in DOMAIN f.children : Matches(f.children[i], ch)
    ELSE IF f.op = "orAll"
    THEN \E i \in DOMAIN f.children : Matches(f.children[i], ch)
    ELSE MatchesLeaf(f, ch)

\* query_financial_data builds the filter from its optional arguments and
\* sends the request with it.
query_financial_data ==
    /\ fpc = "call"
    /\ metadata_filter' = BuildDynamicFilter(criteria)
    /\ fpc' = "sent"
    /\ UNCHANGED << criteria, chunk, matched, std_call, one_group_filter,
                    nonFilterVars >>

\* The knowledge base decides whether the chunk may be retrieved.
Retrieve ==
    /\ fpc = "sent"
    /\ matched' = Matches(metadata_filter, chunk)
    /\ fpc' = "done"
    /\ UNCHANGED << criteria, metadata_filter, chunk, std_call,
                    one_group_filter, nonFilterVars >>

\* A call of create_standard_filter: both arguments by position, or both by
\* keyword.
NoCall == [style |-> "none"]
PositionalCall(a, b) == [style |-> "positional", first |-> a, second |-> b]
KeywordCall(dt, y) == [style |-> "keyword", docType |-> dt, year |-> y]

StandardCalls ==
    {PositionalCall(dt, y) : dt \in DocTypes, y \in Years}
        \cup {KeywordCall(dt, y) : dt \in DocTypes, y \in Years}

\* create_standard_filter(docType, year): positional arguments bind in the
\* order of the parameters, keyword arguments by name.
BindStandard(call) ==
    IF call.style = "positional"
    THEN [docType |-> call.first, year |-> call.second]
    ELSE [docType |-> call.docType, year |-> call.year]

\* Variant that joins the two conditions by OR.
StandardFilter_OrAll(docType, year) ==
    OrAll(<<Leaf("equals", "docType", docType), Leaf("equals", "year", year)>>)

\* The filter of two conditions that must both be true.
StandardFilter(docType, year) ==
    AndAll(<<Leaf("equals", "docType", docType), Leaf("equals", "year", year)>>)

\* one_group_filter = create_standard_filter(...)
create_standard_filter ==
    /\ fpc = "std_call"
    /\ LET args == BindStandard(std_call)
       IN one_group_filter' = StandardFilter(args.docType, args.year)
    /\ fpc' = "std_built"
    /\ UNCHANGED << criteria, metadata_filter, chunk, matched, std_call,
                    nonFilterVars >>

\* retrieve_and_generate_with_filter(metadata_filter=one_group_filter): the
\* knowledge base decides whether the chunk may be retrieved.
RetrieveWithFilter ==
    /\ fpc = "std_built"
    /\ matched' = Matches(one_group_filter, chunk)
    /\ fpc' = "std_done"
    /\ UNCHANGED << criteria, metadata_filter, chunk, std_call,
                    one_group_filter, nonFilterVars >>

\* The filtering notebook is not run.
FilterIdle ==
    /\ criteria = NoCriteria
    /\ metadata_filter = NoFilter
    /\ chunk = [company |-> "Amazon", year |-> 2023, docType |-> "10K Report",
                page |-> 1, uri |-> DataPrefix]
    /\ matched = FALSE
    /\ fpc = "off"
    /\ std_call = NoCall
    /\ one_group_filter = NoFilter

\* A call of query_financial_data with some of the optional criteria, and a
\* chunk of the knowledge base.
DynamicStart ==
    /\ criteria \in [company : CompanyArgs, year : YearArgs,
                     docType : DocTypeArgs, min_page : PageArgs,
                     max_page : PageArgs, s3_prefix : PrefixArgs]
    /\ metadata_filter = NoFilter
    /\ chunk \in Chunks
    /\ matched = FALSE
    /\ fpc = "call"
    /\ std_call = NoCall
    /\ one_group_filter = NoFilter

\* A call of create_standard_filter, and a chunk of the knowledge base.
StandardStart ==
    /\ criteria = NoCriteria
    /\ metadata_filter = NoFilter
    /\ chunk \in Chunks
    /\ matched = FALSE
    /\ fpc = "std_call"
    /\ std_call \in StandardCalls
    /\ one_group_filter = NoFilter

\* The cell of the filtering notebook the model starts at.
FilterStart == DynamicStart \/ StandardStart

\* ------------------------------------------- the configuration mapping
\* Most notebook runs a session makes.
MaxRuns == 2

\* The notebooks, and the cells of each that touch the mapping, in order:
\* "load" reads ../variables.json into variables, "deploy" finds or deploys
\* the endpoint, "save" is save_sagemaker_endpoint_to_variables,
\* "use_endpoint" reads variables["sagemakerLLMEndpoint"].
ConfigCells ==
    [guardrails      |-> <<"load">>,
     filtering       |-> <<"load">>,
     decomposition   |-> <<"load", "use_endpoint">>,
     kb_fixed        |-> <<"load">>,
     kb_custom       |-> <<"load">>,
     kb_hierarchical |-> <<"load">>,
     rag_bedrock     |-> <<"load">>,
     rag_sagemaker   |-> <<"load", "deploy", "save">>,
     strands         |-> <<"load">>,
     structured_data |-> <<>>]

Notebooks == DOMAIN ConfigCells

ConfigRegions == {"us-west-2", "us-east-1"}
EndpointNames == {"endpoint-a", "endpoint-b"}

\* A mapping without the key sagemakerLLMEndpoint.
NoKey == "<no key>"

KbIds == {"KB1", "KB2"}

\* The mapping: flat key-value pairs, among them regionName, kbSemanticChunk
\* and, once saved, sagemakerLLMEndpoint.
Mappings ==
    [regionName : ConfigRegions, kbSemanticChunk : KbIds,
     sagemakerLLMEndpoint : {NoKey} \cup EndpointNames]

\* The name variables is not bound in a fresh kernel.
Unbound == [regionName |-> "<unbound>", kbSemanticChunk |-> "<unbound>",
            sagemakerLLMEndpoint |-> NoKey]

NoEndpointName == "<unbound>"

CurrentConfigCell ==
    IF nb \in Notebooks /\ cfgError = "none" /\ cpc <= Len(ConfigCells[nb])
    THEN ConfigCells[nb][cpc] ELSE "none"

FileWrite(kind, content) == [nb |-> nb, kind |-> kind, content |-> content]

\* A notebook is opened and run from the top in a fresh kernel, once the
\* notebook before it has ended or stopped.
StartNotebook ==
    /\ CurrentConfigCell = "none"
    /\ runs < MaxRuns
    /\ \E n \in Notebooks : nb' = n
    /\ cpc' = 1
    /\ variables' = Unbound
    /\ llm_endpoint_name' = NoEndpointName
    /\ cfgError' = "none"
    /\ runs' = runs + 1
    /\ fileReads' = 0
    /\ UNCHANGED << variablesFile, fileWrites, nonConfigVars >>

\* with open("../variables.json", "r") as f: variables = json.load(f)
LoadVariables ==
    /\ CurrentConfigCell = "load"
    /\ variables' = variablesFile
    /\ fileReads' = fileReads + 1
    /\ cpc' = cpc + 1
    /\ UNCHANGED << nb, variablesFile, llm_endpoint_name, cfgError, runs,
                    fileWrites, nonConfigVars >>

\* llm_endpoint_name = get_or_deploy_sagemaker_endpoint(...)
DeployEndpoint ==
    /\ CurrentConfigCell = "deploy"
    /\ \E name \in EndpointNames : llm_endpoint_name' = name
    /\ cpc' = cpc + 1
    /\ UNCHANGED << nb, variablesFile, variables, cfgError, runs, fileReads,
                    fileWrites, nonConfigVars >>

\* Variant that stores nothing but the endpoint name.
WithEndpoint_Alone(mapping, endpoint_name) ==
    [Unbound EXCEPT !.sagemakerLLMEndpoint = endpoint_name]

\* The mapping with the endpoint name added.
WithEndpoint(mapping, endpoint_name) ==
    [mapping EXCEPT !.sagemakerLLMEndpoint = endpoint_name]

\* # Save the SageMaker endpoint name to the variables JSON file
\* variables = save_sagemaker_endpoint_to_variables(variables, endpoint_name)
SaveEndpoint ==
    /\ CurrentConfigCell = "save"
    /\ variables' = WithEndpoint(variables, llm_endpoint_name)
    /\ variablesFile' = variables'
    /\ fileWrites' = Append(fileWrites, FileWrite("save", variables'))
    /\ cpc' = cpc + 1
    /\ UNCHANGED << nb, llm_endpoint_name, cfgError, runs, fileReads,
                    nonConfigVars >>

\* endpoint_name=variables["sagemakerLLMEndpoint"]: KeyError without the key.
UseEndpoint ==
    /\ CurrentConfigCell = "use_endpoint"
    /\ IF variables.sagemakerLLMEndpoint = NoKey
       THEN cfgError' = "KeyError" /\ cpc' = cpc
       ELSE cfgError' = cfgError /\ cpc' = cpc + 1
    /\ UNCHANGED << nb, variablesFile, variables, llm_endpoint_name, runs,
                    fileReads, fileWrites, nonConfigVars >>

\* No notebook that uses the mapping is run.
ConfigIdle ==
    /\ nb = "off"
    /\ cpc = 1
    /\ variablesFile = [regionName |-> "us-west-2", kbSemanticChunk |-> "KB1",
                        sagemakerLLMEndpoint |-> NoKey]
    /\ variables = Unbound
    /\ llm_endpoint_name = NoEndpointName
    /\ cfgError = "none"
    /\ runs = 0
    /\ fileReads = 0
    /\ fileWrites = <<>>

\* A session begins: the file is as the notebooks before left it.
ConfigStart ==
    /\ nb = "off"
    /\ cpc = 1
    /\ variablesFile \in Mappings
    /\ variables = Unbound
    /\ llm_endpoint_name = NoEndpointName
    /\ cfgError = "none"
    /\ runs = 0
    /\ fileReads = 0
    /\ fileWrites = <<>>

\* ----------------------------------------------------- the Strands notebook
\* Most tool invocations the orchestrator makes for one query.
MaxToolCalls == 4

\* Most chunking notebook runs of a session.
MaxCostRuns == 3

NovaPro == "us.amazon.nova-pro-v1:0"
NovaLite == "us.amazon.nova-lite-v1:0"
NovaMicro == "us.amazon.nova-micro-v1:0"

\* The name is not bound.
NoModel == "<unbound>"
NoAgent == {"<unbound>"}

\* The code cells in notebook order.  "agent" cells bind the name agent to
\* a new Agent with the tools listed and send it a prompt, "prompt" cells
\* send prompts to whatever agent is, "tools" is cell 01940b65 and
\* "orchestrator" cell 583ab341.
StrandsCells ==
    << [id |-> "hello", kind |-> "agent", tools |-> {}, sends |-> 1],
       [id |-> "uc1", kind |-> "agent",
        tools |-> {"python_repl", "file_write"}, sends |-> 1],
       [id |-> "uc2", kind |-> "agent", tools |-> {"python_repl"}, sends |-> 1],
       [id |-> "uc3", kind |-> "agent",
        tools |-> {"use_aws", "http_request"}, sends |-> 1],
       [id |-> "uc4", kind |-> "agent",
        tools |-> {"retrieve", "python_repl"}, sends |-> 1],
       [id |-> "uc5", kind |-> "agent",
        tools |-> {"get_bedrock_token_count", "current_time"}, sends |-> 1],
       [id |-> "uc6", kind |-> "prompt", tools |-> {}, sends |-> 1],
       [id |-> "uc7", kind |-> "prompt", tools |-> {}, sends |-> 1],
       [id |-> "uc8", kind |-> "prompt", tools |-> {}, sends |-> 3],
       [id |-> "uc9_tools", kind |-> "tools", tools |-> {}, sends |-> 0],
       [id |-> "uc9_orchestrator", kind |-> "orchestrator", tools |-> {},
        sends |-> 1] >>

\* The statements of cell 01940b65 in order: an assignment to the global
\* model, or the definition of a tool.
ToolsCellStatements ==
    << [stmt |-> "assign", value |-> NovaPro],
       [stmt |-> "def", value |-> "investment_research_assistant"],
       [stmt |-> "assign", value |-> NovaLite],
       [stmt |-> "def", value |-> "budget_optimizer_assistant"],
       [stmt |-> "assign", value |-> NovaMicro],
       [stmt |-> "def", value |-> "financial_planner_assistant"] >>

AssistantTools ==
    {"investment_research_assistant", "budget_optimizer_assistant",
     "financial_planner_assistant"}

\* The globals after the statements: the last value assigned to model and
\* the functions defined.
RECURSIVE RunStatements(_, _)
RunStatements(stmts, globals) ==
    IF stmts = <<>> THEN globals
    ELSE LET st == Head(stmts)
         IN RunStatements(Tail(stmts),
              IF st.stmt = "assign" THEN [globals EXCEPT !.model = st.value]
              ELSE [globals EXCEPT !.defined = @ \cup {st.value}])

CurrentStrandsCell ==
    IF scell \in DOMAIN StrandsCells THEN StrandsCells[scell]
    ELSE [id |-> "none", kind |-> "none", tools |-> {}, sends |-> 0]

\* n calls agent(prompt) of a cell with the tools the agent has.
Sends(id, tools, n) == [i \in 1..n |-> [cell |-> id, tools |-> tools]]

\* agent = Agent(tools=[...]); agent(prompt)
RunAgentCell ==
    /\ CurrentStrandsCell.kind = "agent"
    /\ agent' = CurrentStrandsCell.tools
    /\ prompts' = prompts \o Sends(CurrentStrandsCell.id, agent',
                                  CurrentStrandsCell.sends)
    /\ scell' = scell + 1
    /\ UNCHANGED << model, defined, orchestrator, toolCalls, nonStrandsVars >>

\* response = agent(prompt): the name agent is looked up when the cell runs.
RunPromptCell ==
    /\ CurrentStrandsCell.kind = "prompt"
    /\ prompts' = prompts \o Sends(CurrentStrandsCell.id, agent,
                                  CurrentStrandsCell.sends)
    /\ scell' = scell + 1
    /\ UNCHANGED << agent, model, defined, orchestrator, toolCalls,
                    nonStrandsVars >>

\* Cell 01940b65 runs to its end.
RunToolsCell ==
    /\ CurrentStrandsCell.kind = "tools"
    /\ LET globals == RunStatements(ToolsCellStatements,
                                    [model |-> model, defined |-> defined])
       IN /\ model' = globals.model
          /\ defined' = globals.defined
    /\ scell' = scell + 1
    /\ UNCHANGED << agent, orchestrator, toolCalls, prompts, nonStrandsVars >>

\* orchestrator = Agent(system_prompt=..., tools=[...]); orchestrator(query)
RunOrchestratorCell ==
    /\ CurrentStrandsCell.kind = "orchestrator"
    /\ AssistantTools \subseteq defined
    /\ orchestrator' = AssistantTools
    /\ scell' = scell + 1
    /\ UNCHANGED << agent, model, defined, toolCalls, prompts,
                    nonStrandsVars >>

\* The orchestrator invokes one of its tools: the body of the tool builds
\* Agent(model=model, ...) with the value the global model has at the call.
InvokeTool ==
    /\ orchestrator # {}
    /\ Len(toolCalls) < MaxToolCalls
    /\ \E t \in orchestrator :
          toolCalls' = Append(toolCalls, [tool |-> t, model |-> model])
    /\ UNCHANGED << scell, agent, model, defined, orchestrator, prompts,
                    nonStrandsVars >>

\* The Strands notebook is not run.
StrandsIdle ==
    /\ scell = 0
    /\ agent = NoAgent
    /\ model = NoModel
    /\ defined = {}
    /\ orchestrator = {}
    /\ toolCalls = <<>>
    /\ prompts = <<>>

\* A fresh kernel at the first code cell.
StrandsStart ==
    /\ scell = 1
    /\ agent = NoAgent
    /\ model = NoModel
    /\ defined = {}
    /\ orchestrator = {}
    /\ toolCalls = <<>>
    /\ prompts = <<>>

\* ------------------------------------- names of the data-loading notebook
\* Strings are sequences of pieces: the value of a placeholder is one piece,
\* the literal text between placeholders is cut at every "/".
AccountIds == {"111122223333", "444455556666", "777788889999",
               "000011112222", "333344445555"}

\* Session().region_name; None without a configured region.
SessionRegions == {"us-west-2", "us-east-1", "eu-west-1", "ap-south-1", "None"}

Unset == <<"<unset>">>

\* f"{account_id}-{region}-s3-retail-db-for-agent-example"
BucketName(a, r) == <<a, "-", r, "-s3-retail-db-for-agent-example">>

\* f"s3://{s3_bucket_name}/athena-query-output/"
OutputLocation(bucket) ==
    <<"s3://">> \o bucket \o <<"/", "athena-query-output", "/">>

\* f"s3://{s3_bucket_name}/data/orders/orders.csv" and the same for returns
UploadUri(bucket, table) ==
    <<"s3://">> \o bucket \o <<"/", "data", "/", table, "/", table \o ".csv">>

\* Variant that puts the region before the account id.
SqlLocation_RegionFirst(a, r, table) ==
    <<"s3://", r, "-", a, "-s3-retail-db-for-agent-example",
      "/", "data", "/", table>>

\* LOCATION 's3://{account_id}-{region}-s3-retail-db-for-agent-example/data/orders'
SqlLocation(a, r, table) ==
    <<"s3://", a, "-", r, "-s3-retail-db-for-agent-example",
      "/", "data", "/", table>>

TableNames == {"orders", "returns"}

\* Cell 46966e94: the variables.
RunVariablesCell ==
    /\ lpc = "variables"
    /\ s3_bucket_name' = BucketName(account_id, region)
    /\ s3_output' = OutputLocation(s3_bucket_name')
    /\ lpc' = "bucket"
    /\ UNCHANGED << account_id, region, sqlLocation, createdBucket, uploaded,
                    tableLocation, queryOutput, nonLocationVars >>

\* Cell bb23ae6a: s3.create_bucket(Bucket=s3_bucket_name, ...)
NameBucket ==
    /\ lpc = "bucket"
    /\ createdBucket' = s3_bucket_name
    /\ lpc' = "upload"
    /\ UNCHANGED << account_id, region, s3_bucket_name, s3_output, sqlLocation,
                    uploaded, tableLocation, queryOutput, nonLocationVars >>

\* Cell 905121f0: the two to_csv calls.
NameUploads ==
    /\ lpc = "upload"
    /\ uploaded' = {UploadUri(s3_bucket_name, t) : t \in TableNames}
    /\ lpc' = "sql"
    /\ UNCHANGED << account_id, region, s3_bucket_name, s3_output, sqlLocation,
                    createdBucket, tableLocation, queryOutput, nonLocationVars >>

\* Cell e2255906: orders_sql and returns_sql.
FormatSql ==
    /\ lpc = "sql"
    /\ sqlLocation' = [t \in TableNames |-> SqlLocation(account_id, region, t)]
    /\ lpc' = "create_tables"
    /\ UNCHANGED << account_id, region, s3_bucket_name, s3_output,
                    createdBucket, uploaded, tableLocation, queryOutput,
                    nonLocationVars >>

\* Cell 350f3f05: both statements run with OutputLocation s3_output.
NameTables ==
    /\ lpc = "create_tables"
    /\ tableLocation' = sqlLocation
    /\ queryOutput' = s3_output
    /\ lpc' = "done"
    /\ UNCHANGED << account_id, region, s3_bucket_name, s3_output, sqlLocation,
                    createdBucket, uploaded, nonLocationVars >>

\* The names of the data-loading notebook are not followed.
LocationIdle ==
    /\ lpc = "off"
    /\ account_id = "111122223333"
    /\ region = "us-west-2"
    /\ s3_bucket_name = Unset
    /\ s3_output = Unset
    /\ sqlLocation = [t \in TableNames |-> Unset]
    /\ createdBucket = Unset
    /\ uploaded = {}
    /\ tableLocation = [t \in TableNames |-> Unset]
    /\ queryOutput = Unset

\* Any account and any region of the session.
LocationStart ==
    /\ lpc = "variables"
    /\ account_id \in AccountIds
    /\ region \in SessionRegions
    /\ s3_bucket_name = Unset
    /\ s3_output = Unset
    /\ sqlLocation = [t \in TableNames |-> Unset]
    /\ createdBucket = Unset
    /\ uploaded = {}
    /\ tableLocation = [t \in TableNames |-> Unset]
    /\ queryOutput = Unset


\* ------------------------------------ notebooks that retrieve and generate
\* The cells of the guardrails, the metadata filtering and the query
\* decomposition notebook that lead to a retrieve-and-generate request.
RequestCells ==
    [guardrails |-> <<"load", "guard_config", "guard_client", "guard_filter",
                      "query_advice", "without_guardrails", "with_guardrails",
                      "query_pii", "without_guardrails", "with_guardrails">>,
     filtering |-> <<"load", "filter_config", "filter_client", "filter_query",
                     "without_filter", "std_filter", "with_filter">>,
     decomposition |-> <<"load", "kb_config", "basic", "decomposed">>]

RequestNotebooks == DOMAIN RequestCells

\* Values of ../variables.json.
RegionNames == {"us-west-2", "us-east-1", "eu-west-1"}
AccountNumbers == {"111122223333", "444455556666"}
GuardrailIds == {"gr-a", "gr-b"}
GuardrailVersions == {"1", "DRAFT"}

VariablesFiles ==
    [accountNumber : AccountNumbers, regionName : RegionNames,
     kbFixedChunk : {"KBFIXED"}, kbSemanticChunk : {"KBSEMANTIC"},
     guardrail_id : GuardrailIds, guardrail_version : GuardrailVersions]

NotBound == "<not bound>"
NotPassed == "<not passed>"

\* The globals of the kernel before any cell has run.
FreshKernel ==
    [variables |-> NotBound, account_number |-> NotBound,
     knowledge_base_id |-> NotBound, model_id |-> NotBound,
     model_arn |-> NotBound, guardrail_id |-> NotBound,
     guardrail_version |-> NotBound, bedrock_client |-> NotBound,
     metadata_filter |-> NotBound, one_group_filter |-> NotBound,
     query |-> NotBound, kb_config |-> NotBound]

AdviceQuery == "based on your Amazon's results should I buy amazon stock?"
PiiQuery == "Who is the current CFO of Amazon?"
SalesQuery == "what was the % increase in sales?"
RevenueQuery == "How much revenue did AWS generate in 2022, ..."

\* A resource name as its pieces between the colons.
InferenceProfileArn(region_name, account_number, model_id) ==
    <<"arn", "aws", "bedrock", region_name, account_number,
      "inference-profile/" \o model_id>>

\* The region of a resource name: its fourth piece.
ArnRegion(arn) == arn[4]

\* get_model_arn(account_number, model_id): the resource name of the model
\* in the configured region.
get_model_arn(account_number, model_id) ==
    InferenceProfileArn(rfile.regionName, account_number, model_id)

\* setup_bedrock_client(region_name)
setup_bedrock_client(region_name) ==
    [service |-> "bedrock-agent-runtime", region |-> region_name]

NoGuardrail == [id |-> NotPassed, version |-> NotPassed]

\* The request a helper sends: the payload and the client it is sent with.
Request(client, query, kb, modelArn, filter, guardrail) ==
    [client |-> client, input |-> query, knowledgeBaseId |-> kb,
     modelArn |-> modelArn, filter |-> filter, guardrail |-> guardrail]

\* retrieve_and_generate_with_conditional_guardrails: the guardrail reference
\* is attached when use_guardrails is true.
ConditionalGuardrailsRequest(args) ==
    Request(args.bedrock_client, args.query, args.knowledge_base_id,
            args.model_arn, args.metadata_filter,
            IF args.use_guardrails
            THEN [id |-> args.guardrail_id, version |-> args.guardrail_version]
            ELSE NoGuardrail)

CurrentRequestCell ==
    IF rnb \in RequestNotebooks /\ rcell <= Len(RequestCells[rnb])
    THEN RequestCells[rnb][rcell] ELSE "none"

\* variables = load_variables("../variables.json")
LoadCell ==
    /\ CurrentRequestCell = "load"
    /\ kernel' = [kernel EXCEPT !.variables = rfile]
    /\ rcell' = rcell + 1
    /\ UNCHANGED << rnb, rfile, calls, requests, nonRequestVars >>

\* Cell 1c2cbca0 of the guardrails notebook.
GuardConfigCell ==
    /\ CurrentRequestCell = "guard_config"
    /\ kernel' =
         [kernel EXCEPT
            !.account_number = kernel.variables.accountNumber,
            !.knowledge_base_id = kernel.variables.kbFixedChunk,
            !.model_id = NovaPro,
            !.guardrail_version = kernel.variables.guardrail_version,
            !.guardrail_id = kernel.variables.guardrail_id,
            !.model_arn =
                get_model_arn(kernel.variables.accountNumber, NovaPro)]
    /\ rcell' = rcell + 1
    /\ UNCHANGED << rnb, rfile, calls, requests, nonRequestVars >>

\* Cell d6c62472: bedrock_client = setup_bedrock_client("us-west-2")
GuardClientCell ==
    /\ CurrentRequestCell = "guard_client"
    /\ kernel' =
         [kernel EXCEPT !.bedrock_client = setup_bedrock_client("us-west-2")]
    /\ rcell' = rcell + 1
    /\ UNCHANGED << rnb, rfile, calls, requests, nonRequestVars >>

\* Cell 2abfc342: metadata_filter = create_standard_filter('10K Report', 2023)
GuardFilterCell ==
    /\ CurrentRequestCell = "guard_filter"
    /\ LET args == BindStandard(PositionalCall("10K Report", 2023))
       IN kernel' =
            [kernel EXCEPT
               !.metadata_filter = StandardFilter(args.docType, args.year)]
    /\ rcell' = rcell + 1
    /\ UNCHANGED << rnb, rfile, calls, requests, nonRequestVars >>

\* Cells a4f113ab, d0dab16d and b30b6684: query = "..."
QueryCell ==
    /\ CurrentRequestCell \in {"query_advice", "query_pii", "filter_query"}
    /\ kernel' =
         [kernel EXCEPT
            !.query = CASE CurrentRequestCell = "query_advice" -> AdviceQuery
                        [] CurrentRequestCell = "query_pii" -> PiiQuery
                        [] OTHER -> SalesQuery]
    /\ rcell' = rcell + 1
    /\ UNCHANGED << rnb, rfile, calls, requests, nonRequestVars >>

\* Variant that leaves the metadata filter out of the call.
WithoutGuardrailsArgs_NoFilter ==
    [query |-> kernel.query, knowledge_base_id |-> kernel.knowledge_base_id,
     model_arn |-> kernel.model_arn, bedrock_client |-> kernel.bedrock_client,
     metadata_filter |-> NoFilter, use_guardrails |-> FALSE,
     guardrail_id |-> NotPassed, guardrail_version |-> NotPassed]

\* The arguments of cells 2154467d and 32003c8d.
WithoutGuardrailsArgs ==
    [query |-> kernel.query, knowledge_base_id |-> kernel.knowledge_base_id,
     model_arn |-> kernel.model_arn, bedrock_client |-> kernel.bedrock_client,
     metadata_filter |-> kernel.metadata_filter, use_guardrails |-> FALSE,
     guardrail_id |-> NotPassed, guardrail_version |-> NotPassed]

\* The arguments of cells f6a228d9 and 7f332513.
WithGuardrailsArgs ==
    [query |-> kernel.query, knowledge_base_id |-> kernel.knowledge_base_id,
     model_arn |-> kernel.model_arn, bedrock_client |-> kernel.bedrock_client,
     metadata_filter |-> kernel.metadata_filter, use_guardrails |-> TRUE,
     guardrail_id |-> kernel.guardrail_id,
     guardrail_version |-> kernel.guardrail_version]

\* A call of retrieve_and_generate_with_conditional_guardrails.
CallConditionalGuardrails ==
    /\ CurrentRequestCell \in {"without_guardrails", "with_guardrails"}
    /\ LET args == IF CurrentRequestCell = "with_guardrails"
                   THEN WithGuardrailsArgs ELSE WithoutGuardrailsArgs
       IN /\ calls' = Append(calls, [cell |-> rcell, args |-> args,
                                     filterBefore |-> kernel.metadata_filter])
          /\ requests' = Append(requests, ConditionalGuardrailsRequest(args))
    /\ rcell' = rcell + 1
    /\ UNCHANGED << rnb, rfile, kernel, nonRequestVars >>

\* Cell 92773810 of the filtering notebook.
FilterConfigCell ==
    /\ CurrentRequestCell = "filter_config"
    /\ kernel' =
         [kernel EXCEPT
            !.account_number = kernel.variables.accountNumber,
            !.knowledge_base_id = kernel.variables.kbSemanticChunk,
            !.model_id = NovaPro,
            !.model_arn =
                get_model_arn(kernel.variables.accountNumber, NovaPro)]
    /\ rcell' = rcell + 1
    /\ UNCHANGED << rnb, rfile, calls, requests, nonRequestVars >>

\* Cell 9a07b9c5: setup_bedrock_client(variables["regionName"])
FilterClientCell ==
    /\ CurrentRequestCell = "filter_client"
    /\ kernel' =
         [kernel EXCEPT
            !.bedrock_client =
                setup_bedrock_client(kernel.variables.regionName)]
    /\ rcell' = rcell + 1
    /\ UNCHANGED << rnb, rfile, calls, requests, nonRequestVars >>

\* one_group_filter = aru.create_standard_filter(docType=..., year=2023)
StdFilterCell ==
    /\ CurrentRequestCell = "std_filter"
    /\ LET args == BindStandard(KeywordCall("10K Report", 2023))
       IN kernel' =
            [kernel EXCEPT
               !.one_group_filter = StandardFilter(args.docType, args.year)]
    /\ rcell' = rcell + 1
    /\ UNCHANGED << rnb, rfile, calls, requests, nonRequestVars >>

\* retrieve_and_generate_without_filter / retrieve_and_generate_with_filter
CallFilterNotebook ==
    /\ CurrentRequestCell \in {"without_filter", "with_filter"}
    /\ requests' =
         Append(requests,
                Request(kernel.bedrock_client, kernel.query,
                        kernel.knowledge_base_id, kernel.model_arn,
                        IF CurrentRequestCell = "with_filter"
                        THEN kernel.one_group_filter ELSE NoFilter,
                        NoGuardrail))
    /\ rcell' = rcell + 1
    /\ UNCHANGED << rnb, rfile, kernel, calls, nonRequestVars >>

\* kb_config = get_kb_config(kb_id=variables["kbSemanticChunk"], ...)
KbConfigCell ==
    /\ CurrentRequestCell = "kb_config"
    /\ kernel' =
         [kernel EXCEPT
            !.kb_config = [kb_id |-> kernel.variables.kbSemanticChunk,
                           number_of_results |-> 5]]
    /\ rcell' = rcell + 1
    /\ UNCHANGED << rnb, rfile, calls, requests, nonRequestVars >>

\* model_id = f"arn:aws:bedrock:us-west-2:{variables['accountNumber']}:..."
BasicModelId ==
    InferenceProfileArn("us-west-2", kernel.variables.accountNumber, NovaPro)

\* Cell 60064755: model_id, query and retrieve_and_generate_basic(...,
\* region_name=variables["regionName"]).
BasicCell ==
    /\ CurrentRequestCell = "basic"
    /\ kernel' = [kernel EXCEPT !.model_id = BasicModelId,
                                !.query = RevenueQuery]
    /\ requests' =
         Append(requests,
                Request(setup_bedrock_client(kernel.variables.regionName),
                        RevenueQuery, kernel.kb_config.kb_id, BasicModelId,
                        NoFilter, NoGuardrail))
    /\ rcell' = rcell + 1
    /\ UNCHANGED << rnb, rfile, calls, nonRequestVars >>

\* Cell 33b21ca6: retrieve_and_generate_with_decomposition(model_id=model_id,
\* region_name=variables["regionName"]).
DecomposedCell ==
    /\ CurrentRequestCell = "decomposed"
    /\ kernel' = [kernel EXCEPT !.query = RevenueQuery]
    /\ requests' =
         Append(requests,
                Request(setup_bedrock_client(kernel.variables.regionName),
                        RevenueQuery, kernel.kb_config.kb_id, kernel.model_id,
                        NoFilter, NoGuardrail))
    /\ rcell' = rcell + 1
    /\ UNCHANGED << rnb, rfile, calls, nonRequestVars >>

\* None of these notebooks is run.
RequestIdle ==
    /\ rnb = "none"
    /\ rcell = 1
    /\ rfile = [accountNumber |-> "111122223333", regionName |-> "us-west-2",
                kbFixedChunk |-> "KBFIXED", kbSemanticChunk |-> "KBSEMANTIC",
                guardrail_id |-> "gr-a", guardrail_version |-> "1"]
    /\ kernel = FreshKernel
    /\ calls = <<>>
    /\ requests = <<>>

\* A fresh kernel of one of the notebooks, and any content of the file.
RequestStart ==
    /\ rnb \in RequestNotebooks
    /\ rcell = 1
    /\ rfile \in VariablesFiles
    /\ kernel = FreshKernel
    /\ calls = <<>>
    /\ requests = <<>>


\* --------------------------------------------------------- the cost table
\* The cells of the chunking notebooks that touch the cost table, in order.
CostCells ==
    [fixed |-> <<"load_costs", "update_row", "save_costs">>,
     hierarchical |-> <<"load_costs", "update_row", "save_costs">>,
     custom |-> <<"load_costs", "update_row">>]

\* kb_chunking_strategy of each notebook.
ChunkingNotebooks == DOMAIN CostCells

\* vector_store_embedding_cost['total token costs'] of a run.
TokenCosts == {1, 2}

NoRow == [chunking_algo |-> "none", total_token_costs |-> 0]

\* The kernel has not loaded the table.
NoTable == << NoRow >>

\* load_df_from_csv(): the rows of the file, none if there is no file.
load_df_from_csv(file) == file

\* update_or_add_row(df, new_row): the row of the same chunking_algo is
\* replaced, a new chunking_algo is added at the end.
update_or_add_row(df, row) ==
    IF \E i \in DOMAIN df : df[i].chunking_algo = row.chunking_algo
    THEN [i \in DOMAIN df |->
             IF df[i].chunking_algo = row.chunking_algo
             THEN row ELSE df[i]]
    ELSE Append(df, row)

CurrentCostCell ==
    IF cnb \in ChunkingNotebooks /\ ccell <= Len(CostCells[cnb])
    THEN CostCells[cnb][ccell] ELSE "end"

\* A notebook is opened in a fresh kernel after the one before it has ended.
OpenChunkingNotebook ==
    /\ cnb \in ChunkingNotebooks
    /\ CurrentCostCell = "end"
    /\ costRuns < MaxCostRuns
    /\ \E n \in ChunkingNotebooks : cnb' = n
    /\ ccell' = 1
    /\ df_costs' = NoTable
    /\ new_row' = NoRow
    /\ costRuns' = costRuns + 1
    /\ rowsEarlier' = IF new_row = NoRow THEN rowsEarlier
                      ELSE [rowsEarlier EXCEPT ![cnb] = new_row]
    /\ loadedTable' = NoTable
    /\ UNCHANGED << costsCsv, nonCostVars >>

\* df_costs = load_df_from_csv()
LoadCosts ==
    /\ CurrentCostCell = "load_costs"
    /\ df_costs' = load_df_from_csv(costsCsv)
    /\ loadedTable' = df_costs'
    /\ ccell' = ccell + 1
    /\ UNCHANGED << cnb, costsCsv, new_row, costRuns, rowsEarlier,
                    nonCostVars >>

\* new_row = {...}; df_costs = update_or_add_row(df_costs, new_row)
UpdateRow ==
    /\ CurrentCostCell = "update_row"
    /\ \E c \in TokenCosts :
          new_row' = [chunking_algo |-> cnb, total_token_costs |-> c]
    /\ df_costs' = update_or_add_row(df_costs, new_row')
    /\ ccell' = ccell + 1
    /\ UNCHANGED << cnb, costsCsv, costRuns, rowsEarlier, loadedTable,
                    nonCostVars >>

\* save_df_to_csv(df_costs)
SaveCosts ==
    /\ CurrentCostCell = "save_costs"
    /\ costsCsv' = df_costs
    /\ ccell' = ccell + 1
    /\ UNCHANGED << cnb, df_costs, new_row, costRuns, rowsEarlier,
                    loadedTable, nonCostVars >>

\* No chunking notebook is run.
CostIdle ==
    /\ cnb = "none"
    /\ ccell = 1
    /\ costsCsv = <<>>
    /\ df_costs = NoTable
    /\ new_row = NoRow
    /\ costRuns = 0
    /\ rowsEarlier = [n \in ChunkingNotebooks |-> NoRow]
    /\ loadedTable = NoTable

\* The first chunking notebook of a session, before there is a cost file.
CostStart ==
    /\ cnb \in ChunkingNotebooks
    /\ ccell = 1
    /\ costsCsv = <<>>
    /\ df_costs = NoTable
    /\ new_row = NoRow
    /\ costRuns = 1
    /\ rowsEarlier = [n \in ChunkingNotebooks |-> NoRow]
    /\ loadedTable = NoTable


\* ------------------------------------------- the diagram cell (use case 10)
\* Text is a sequence of pieces: the marker is one piece, a path is cut at
\* its "/" and at the characters the cell strips.
path_marker == "The diagram is saved at: "

diagram_dir == "./generated-diagrams"

Whitespace == {" ", "\n", "\t"}
\* The characters the cell strips from the ends of the path.
Backtick == "<backtick>"
SingleQuote == "<single quote>"
DoubleQuote == "<double quote>"

QuoteChars == {Backtick, SingleQuote, DoubleQuote}

NoPath == << >>

\* What the diagram tool may have written, and the paths an agent may state:
\* the image inside diagram_dir, an image elsewhere, or diagram_dir itself.
ImagePaths == {<<diagram_dir, "/", "site.png">>, <<"/tmp/site", " ", "v2.png">>}
StatedPaths == ImagePaths \cup {<<diagram_dir>>}

\* Text of an answer that states a path in the format the system prompt
\* asks for, possibly quoted, inside other text.
Before == {<< >>, <<"Here is the diagram.", "\n">>}
After == {<< >>, <<"\n", "Let me know if you need changes.">>, <<".">>,
          <<" ", "(PNG)">>}
Quoted == {<< >>, <<Backtick>>, <<SingleQuote>>, <<DoubleQuote>>}

StatingAnswers ==
    {[text |-> b \o <<path_marker>> \o q \o p \o q \o a, stated |-> p] :
        b \in Before, q \in Quoted, p \in StatedPaths, a \in After}

\* Answers that state no path: no text, no marker, nothing after the marker.
OtherAnswers ==
    {[text |-> t, stated |-> NoPath] :
        t \in {<< >>, <<"I could not create the diagram.">>,
               <<"Done.", "\n", "See the file.">>,
               <<path_marker>>, <<path_marker, "\n", "site.png">>,
               <<path_marker, " ", Backtick, Backtick>>}}

AgentAnswers == StatingAnswers \cup OtherAnswers

\* str.find(piece, start): the first position from start on, 0 if none.
RECURSIVE Find(_, _, _)
Find(text, piece, start) ==
    IF start > Len(text) THEN 0
    ELSE IF text[start] = piece THEN start
    ELSE Find(text, piece, start + 1)

\* str.strip(chars)
RECURSIVE StripLeft(_, _)
StripLeft(text, chars) ==
    IF text # << >> /\ Head(text) \in chars THEN StripLeft(Tail(text), chars)
    ELSE text

RECURSIVE StripRight(_, _)
StripRight(text, chars) ==
    IF text # << >> /\ text[Len(text)] \in chars
    THEN StripRight(SubSeq(text, 1, Len(text) - 1), chars)
    ELSE text

Strip(text, chars) == StripRight(StripLeft(text, chars), chars)

\* diagram_path_raw: from behind the first marker to the next newline.
ExtractRaw(text) ==
    LET start_index == Find(text, path_marker, 1) + 1
        newline == Find(text, "\n", start_index)
        end_index == IF newline = 0 THEN Len(text) + 1 ELSE newline
    IN Strip(SubSeq(text, start_index, end_index - 1), Whitespace)

\* diagram_path: diagram_path_raw stripped of backticks and quotes.
ExtractPath(text) == Strip(ExtractRaw(text), QuoteChars)

\* os.path.exists(path): a file or a directory is there.
PathExists(path) == path \in DOMAIN fileSystem

\* The file system of the kernel: diagram_dir is a directory, and the tool
\* may have saved an image.
FileSystemWith(images) ==
    [p \in images \cup {<<diagram_dir>>} |->
        IF p = <<diagram_dir>> THEN "directory" ELSE "png"]

\* agent_result = agent(query): the answer, and what the diagram tool saved.
AskAgent ==
    /\ dcell = "ask"
    /\ \E answer \in AgentAnswers :
          /\ final_agent_response_text' = answer.text
          /\ stated' = answer.stated
          /\ \E images \in {{}, ImagePaths \cap {answer.stated}} :
                fileSystem' = FileSystemWith(images)
    /\ dcell' = "extract"
    /\ UNCHANGED << diagram_path, reported, displayed, diagramError,
                    nonDiagramVars >>

\* display(Image(filename=diagram_path)): the image is read from the file;
\* a directory cannot be read as an image.
ShowsImage(path) == fileSystem[path] = "png"

\* The rest of cell b553ab8d: extraction of the path and the five branches.
HandleResponse ==
    /\ dcell = "extract"
    /\ dcell' = "done"
    /\ IF final_agent_response_text # << >>
       THEN IF Find(final_agent_response_text, path_marker, 1) # 0
            THEN /\ diagram_path' = ExtractPath(final_agent_response_text)
                 /\ IF diagram_path' # NoPath /\ PathExists(diagram_path')
                    THEN /\ reported' = <<"Displaying diagram from">>
                         /\ IF ShowsImage(diagram_path')
                            THEN /\ displayed' = <<diagram_path'>>
                                 /\ diagramError' = "none"
                            ELSE /\ displayed' = << >>
                                 /\ diagramError' = "raised"
                    ELSE /\ reported' =
                              IF diagram_path' # NoPath
                              THEN <<"Diagram file not found">>
                              ELSE <<"Could not find a valid diagram path">>
                         /\ UNCHANGED << displayed, diagramError >>
            ELSE /\ reported' = <<"Agent did not provide a diagram path">>
                 /\ UNCHANGED << diagram_path, displayed, diagramError >>
       ELSE /\ reported' = <<"No textual response extracted">>
            /\ UNCHANGED << diagram_path, displayed, diagramError >>
    /\ UNCHANGED << final_agent_response_text, stated, fileSystem,
                    nonDiagramVars >>

\* The diagram cell is not run.
DiagramIdle ==
    /\ dcell = "off"
    /\ final_agent_response_text = << >>
    /\ stated = NoPath
    /\ fileSystem = FileSystemWith({})
    /\ diagram_path = NoPath
    /\ reported = << >>
    /\ displayed = << >>
    /\ diagramError = "none"

\* The cell has made diagram_dir and is about to call the agent.
DiagramStart ==
    /\ dcell = "ask"
    /\ final_agent_response_text = << >>
    /\ stated = NoPath
    /\ fileSystem = FileSystemWith({})
    /\ diagram_path = NoPath
    /\ reported = << >>
    /\ displayed = << >>
    /\ diagramError = "none"

\* ------------------------------------------------------------ specification
\* A run starts at the first cell; the resources may be left from an earlier
\* run, and glue_client may be bound from an earlier run in the same kernel.
NotebookStart ==
    /\ cell = "bucket"
    /\ failedCell = "none"
    /\ callIdx = 1
    /\ pc = "idle"
    /\ remote = <<>>
    /\ query_execution_id = 0
    /\ response = NoResponse
    /\ results = <<>>
    /\ error = "none"
    /\ out = <<>>
    /\ observed = <<>>
    /\ polledIds = {}
    /\ trace = <<>>
    /\ slept = 0
    /\ caught = {}
    /\ bucketExists \in BOOLEAN
    /\ dbExists \in BOOLEAN
    /\ tables \in SUBSET {"orders", "returns"}
    /\ objects \in {{}, {OrdersKey, ReturnsKey}}
    /\ glueBound \in BOOLEAN
    /\ bucketOutcome = "not called"
    /\ dbOutcome = "not called"
    /\ existedBefore = tables
    /\ resourcesBefore = [bucket |-> bucketExists, db |-> dbExists,
                          objects |-> objects]
    /\ fetched = <<>>

\* The structured-data notebook is not run.
NotebookIdle ==
    /\ cell = "off"
    /\ failedCell = "none"
    /\ callIdx = 1
    /\ pc = "idle"
    /\ remote = <<>>
    /\ query_execution_id = 0
    /\ response = NoResponse
    /\ results = <<>>
    /\ error = "none"
    /\ out = <<>>
    /\ observed = <<>>
    /\ polledIds = {}
    /\ trace = <<>>
    /\ slept = 0
    /\ caught = {}
    /\ bucketExists = FALSE
    /\ dbExists = FALSE
    /\ tables = {}
    /\ objects = {}
    /\ glueBound = FALSE
    /\ bucketOutcome = "not called"
    /\ dbOutcome = "not called"
    /\ existedBefore = {}
    /\ resourcesBefore = [bucket |-> FALSE, db |-> FALSE, objects |-> {}]
    /\ fetched = <<>>

Init ==
    NotebookStart /\ FilterIdle /\ ConfigIdle /\ StrandsIdle
        /\ LocationIdle /\ RequestIdle
       /\ CostIdle
       /\ DiagramIdle

Next ==
    \/ RunBucketCell
    \/ RunDatabaseCell
    \/ RunUploadCell
    \/ EnterCall
    \/ StartQuery
    \/ Poll
    \/ Sleep
    \/ FetchResults
    \/ ShowAndReturn
    \/ RaiseQueryFailed
    \/ AfterReturn
    \/ AfterRaise
    \/ RemoteProgress
    \/ RemoteFinish

Spec == Init /\ [][Next]_vars

\* The kernel runs the notebook on (every remote call returns), and a query
\* the service has accepted ends at some time.
NotebookStep ==
    \/ RunBucketCell
    \/ RunDatabaseCell
    \/ RunUploadCell
    \/ EnterCall
    \/ StartQuery
    \/ Poll
    \/ Sleep
    \/ FetchResults
    \/ ShowAndReturn
    \/ RaiseQueryFailed
    \/ AfterReturn
    \/ AfterRaise

LiveSpec == Spec /\ WF_vars(NotebookStep) /\ WF_vars(RemoteFinish)

\* The metadata filtering notebook: one call of query_financial_data.
FilterInit ==
    FilterStart /\ NotebookIdle /\ ConfigIdle /\ StrandsIdle
        /\ LocationIdle /\ RequestIdle
       /\ CostIdle
       /\ DiagramIdle

FilterNext ==
    \/ query_financial_data
    \/ Retrieve
    \/ create_standard_filter
    \/ RetrieveWithFilter

FilterSpec == FilterInit /\ [][FilterNext]_vars

\* The notebooks that use the configuration mapping, run one after another.
ConfigInit ==
    ConfigStart /\ NotebookIdle /\ FilterIdle /\ StrandsIdle
        /\ LocationIdle /\ RequestIdle
       /\ CostIdle
       /\ DiagramIdle

ConfigNext ==
    \/ StartNotebook
    \/ LoadVariables
    \/ DeployEndpoint
    \/ SaveEndpoint
    \/ UseEndpoint

ConfigSpec == ConfigInit /\ [][ConfigNext]_vars

\* The Strands notebook, run from top to bottom.
StrandsInit ==
    StrandsStart /\ NotebookIdle /\ FilterIdle /\ ConfigIdle
        /\ LocationIdle /\ RequestIdle
       /\ CostIdle
       /\ DiagramIdle

StrandsNext ==
    \/ RunAgentCell
    \/ RunPromptCell
    \/ RunToolsCell
    \/ RunOrchestratorCell
    \/ InvokeTool

StrandsSpec == StrandsInit /\ [][StrandsNext]_vars

\* The names the data-loading notebook gives to bucket, objects and tables.
LocationInit ==
    LocationStart /\ NotebookIdle /\ FilterIdle /\ ConfigIdle /\ StrandsIdle
       /\ RequestIdle
       /\ CostIdle
       /\ DiagramIdle

LocationNext ==
    \/ RunVariablesCell
    \/ NameBucket
    \/ NameUploads
    \/ FormatSql
    \/ NameTables

LocationSpec == LocationInit /\ [][LocationNext]_vars


\* The notebooks that send retrieve-and-generate requests.
RequestInit ==
    RequestStart /\ NotebookIdle /\ FilterIdle /\ ConfigIdle /\ StrandsIdle
       /\ LocationIdle
       /\ CostIdle
       /\ DiagramIdle

RequestNext ==
    \/ LoadCell
    \/ GuardConfigCell
    \/ GuardClientCell
    \/ GuardFilterCell
    \/ QueryCell
    \/ CallConditionalGuardrails
    \/ FilterConfigCell
    \/ FilterClientCell
    \/ StdFilterCell
    \/ CallFilterNotebook
    \/ KbConfigCell
    \/ BasicCell
    \/ DecomposedCell

RequestSpec == RequestInit /\ [][RequestNext]_vars


\* The chunking notebooks, one after the other, and the cost table they
\* share.
CostInit ==
    CostStart /\ NotebookIdle /\ FilterIdle /\ ConfigIdle /\ StrandsIdle
       /\ LocationIdle /\ RequestIdle
       /\ DiagramIdle

CostNext ==
    \/ OpenChunkingNotebook
    \/ LoadCosts
    \/ UpdateRow
    \/ SaveCosts

CostSpec == CostInit /\ [][CostNext]_vars


\* The diagram cell of the Strands notebook.
DiagramInit ==
    DiagramStart /\ NotebookIdle /\ FilterIdle /\ ConfigIdle /\ StrandsIdle
       /\ LocationIdle /\ RequestIdle /\ CostIdle

DiagramNext ==
    \/ AskAgent
    \/ HandleResponse

DiagramSpec == DiagramInit /\ [][DiagramNext]_vars

\* ------------------------------------------------------------------ claims
Count(seq, x) == Cardinality({i \in DOMAIN seq : seq[i] = x})

LastObserved == observed[Len(observed)]

\* The call is past its wait loop.
PastLoop == pc \in {"branch", "show", "returned", "raised"}

\* C1: execute_athena_query leaves its wait loop only after a poll has
\* reported SUCCEEDED, FAILED or CANCELLED: while every state observed so far
\* is another one it is not past the loop (no fetch, no return, no raise),
\* the poll that ends the loop is the first that saw one of the three, and
\* after a poll that saw another state the function sleeps and then polls.
C1_LeavesLoopOnlyOnTerminalState ==
    /\ [](/\ (\A i \in DOMAIN observed :
                 observed[i].state \notin {"SUCCEEDED", "FAILED", "CANCELLED"})
             => ~PastLoop
          /\ PastLoop =>
               /\ observed # <<>>
               /\ \A i \in DOMAIN observed :
                     (observed[i].state \in {"SUCCEEDED", "FAILED", "CANCELLED"})
                        <=> (i = Len(observed)))
    /\ [][/\ (pc = "poll" /\ observed' # observed
                /\ observed'[Len(observed')].state \in {"QUEUED", "RUNNING"})
             => pc' = "sleep"
          /\ (pc = "sleep" /\ pc' # pc) => pc' = "poll"]_vars

C1_Witness ==
    /\ pc = "returned"
    /\ Len(observed) = 3
    /\ observed[1].state = "QUEUED"
    /\ observed[2].state = "RUNNING"

\* C2: when the state that ended the loop is FAILED or CANCELLED the call
\* raises 'Query failed: ' followed by the StateChangeReason of that last
\* poll, or by 'No error message available' when that poll had none; no
\* results are fetched and nothing is displayed or printed by the call.
C2_FailedQueryRaises ==
    /\ (PastLoop /\ observed # <<>>
          /\ LastObserved.state \in {"FAILED", "CANCELLED"})
       => /\ pc \in {"branch", "raised"}
          /\ Count(trace, "get_query_results") = 0
          /\ Count(trace, "table") = 0
          /\ Count(trace, "print") = 0
          /\ results = <<>>
    /\ pc = "raised"
       => /\ LastObserved.state \in {"FAILED", "CANCELLED"}
          /\ error = "Query failed: " \o
                (IF LastObserved.reason = NoReason
                 THEN "No error message available" ELSE LastObserved.reason)

C2_Witness ==
    /\ pc = "raised"
    /\ Len(observed) = 2
    /\ observed[1].reason = "Query is being retried"
    /\ observed[2].state = "CANCELLED"
    /\ observed[2].reason = NoReason
    /\ error = "Query failed: No error message available"

\* C3: with every remote call returning and every submitted query ending,
\* every call of execute_athena_query finishes, by returning or by raising.
C3_CallFinishes ==
    (pc \in {"start", "poll", "sleep", "branch", "show"})
       ~> (pc \in {"returned", "raised"})

C3_Witness ==
    /\ pc = "raised"
    /\ Len(observed) = MaxPolls + 1
    /\ cell = "validate"

\* C4: no timeout and no cancellation: after any number of polls that all saw
\* a non-terminal state the call is still in its loop (about to sleep or to
\* poll), has not returned or raised, and has made no call other than the
\* submission and the polls: it never asks the service to stop the query.
C4_NoTimeoutNoCancel ==
    /\ \A n \in 1..Len(observed) :
          (\A i \in 1..n : observed[i].state \in {"QUEUED", "RUNNING"})
             => /\ n = Len(observed) => (pc \in {"sleep", "poll"} /\ error = "none")
                /\ \A k \in 1..(2 * n) :
                      trace[k] \in {"start_query_execution",
                                    "get_query_execution", "sleep"}
    /\ Count(trace, "stop_query_execution") = 0

C4_Witness ==
    /\ Len(observed) = MaxPolls
    /\ \A i \in DOMAIN observed : observed[i].state \in {"QUEUED", "RUNNING"}
    /\ remote[query_execution_id].state = "RUNNING"
    /\ pc = "sleep"

\* C5: no retry: a call submits its query exactly once whatever it then
\* observes, every poll is for the id that submission returned, and no query
\* of the notebook is ever submitted a second time.
C5_NoRetry ==
    /\ pc \in {"poll", "sleep", "branch", "show", "returned", "raised"}
       => /\ Count(trace, "start_query_execution") = 1
          /\ trace[1] = "start_query_execution"
          /\ query_execution_id = Len(remote)
          /\ polledIds \subseteq {Len(remote)}
    /\ \A i, j \in DOMAIN remote : remote[i].query = remote[j].query => i = j

C5_Witness ==
    /\ pc = "raised"
    /\ Len(remote) = 2
    /\ remote[2].state = "FAILED"
    /\ polledIds = {2}

\* C6: queries run one after another: a query is submitted only after every
\* query submitted before it was seen SUCCEEDED by a call that returned; once
\* a call has raised nothing more is submitted; and at no time are two
\* submitted queries both non-terminal.
C6_OneQueryAtATime ==
    /\ [](/\ \A i \in DOMAIN remote :
                i < Len(remote) => remote[i].state = "SUCCEEDED"
          /\ Cardinality({i \in DOMAIN remote :
                             remote[i].state \in {"QUEUED", "RUNNING"}}) <= 1
          /\ failedCell \in {"create_tables", "validate"}
                => remote[Len(remote)].state \in {"FAILED", "CANCELLED"})
    /\ [][pc = "raised" => remote' = remote]_vars
    /\ [][Len(remote') > Len(remote)
            => /\ pc = "start"
               /\ Cardinality({i \in DOMAIN out :
                                  out[i].cell \in {"create_tables", "validate"}})
                     = Len(remote)]_vars

C6_Witness ==
    /\ cell = "create_tables"
    /\ Len(remote) = 2
    /\ remote[1].state = "SUCCEEDED"
    /\ remote[2].state = "RUNNING"
    /\ pc = "sleep"

\* C7: fixed polling interval: the first poll follows the submission with no
\* sleep before it, every sleep is one second and stands between two polls,
\* two polls are never adjacent, and no sleep follows the poll that ended the
\* loop, so that past the loop the polls are one more than the sleeps.
C7_FixedInterval ==
    /\ Len(trace) >= 2 => trace[2] = "get_query_execution"
    /\ \A k \in DOMAIN trace :
          /\ trace[k] = "sleep"
             => /\ k > 1 /\ trace[k - 1] = "get_query_execution"
                /\ k < Len(trace) => trace[k + 1] = "get_query_execution"
          /\ (trace[k] = "get_query_execution" /\ k < Len(trace))
             => trace[k + 1] # "get_query_execution"
    /\ slept = 1 * Count(trace, "sleep")
    /\ PastLoop =>
          Count(trace, "get_query_execution") = Count(trace, "sleep") + 1
    /\ pc = "poll" =>
          Count(trace, "get_query_execution") = Count(trace, "sleep")

C7_Witness ==
    /\ pc = "branch"
    /\ Count(trace, "get_query_execution") = 3
    /\ Count(trace, "sleep") = 2
    /\ slept = 2

CellOut(c) == SelectSeq(out, LAMBDA o : o.cell = c)

\* C8: when create_bucket raises BucketAlreadyOwnedByYou, or create_database
\* raises AlreadyExistsException, the cell prints its 'already exists'
\* message and nothing else, does not print the success message, and ends
\* without an exception.
C8_AlreadyExistsIsCaught ==
    /\ bucketOutcome = "BucketAlreadyOwnedByYou"
       => /\ CellOut("bucket") = <<Printed("bucket", "S3 bucket already exists")>>
          /\ failedCell # "bucket"
          /\ cell # "bucket"
    /\ dbOutcome = "AlreadyExistsException"
       => /\ CellOut("database") =
                <<Printed("database", "Database retail already exists")>>
          /\ failedCell # "database"
          /\ cell \notin {"bucket", "database"}

C8_Witness ==
    /\ bucketOutcome = "BucketAlreadyOwnedByYou"
    /\ dbOutcome = "AlreadyExistsException"
    /\ cell = "upload"
    /\ error = "none"

\* C9 as stated: when a table exists already, the cell that creates the
\* tables catches an 'already exists' exception and prints a message.
C9_TableExistsIsCaught ==
    (existedBefore # {} /\ cell = "validate")
       => /\ \E c \in caught : c[1] = "create_tables"
          /\ \E i \in DOMAIN out :
                /\ out[i].cell = "create_tables"
                /\ out[i].text # "Successfully executed."

\* C9 amended: the cell that creates the tables catches no exception and
\* prints no 'already exists' message, whether the tables exist or not: each
\* statement is CREATE EXTERNAL TABLE IF NOT EXISTS, its call returns as for
\* a new table (for a statement without result rows it prints 'Successfully
\* executed.'), the tables that existed are still there, and a failed query
\* raises 'Query failed: ...' out of the cell.
C9_TableExistsIsNotAnError ==
    /\ \A c \in caught : c[1] \notin {"create_tables", "validate"}
    /\ \A i \in DOMAIN out :
          out[i].cell = "create_tables"
             => out[i] = Printed("create_tables", "Successfully executed.")
    /\ existedBefore \subseteq tables
    /\ cell \in {"validate", "end"} =>
          /\ Len(CellOut("create_tables")) = 2
          /\ {"orders", "returns"} \subseteq tables
    /\ failedCell = "create_tables" =>
          error \in {"Query failed: " \o m :
                       m \in Reasons \cup {"No error message available"}}

C9_Witness ==
    /\ existedBefore = {"orders", "returns"}
    /\ cell = "validate"
    /\ Len(CellOut("create_tables")) = 2
    /\ caught = {<<"bucket", "BucketAlreadyOwnedByYou">>,
                 <<"database", "AlreadyExistsException">>}

Range(seq) == {seq[i] : i \in DOMAIN seq}

\* C10: the filter expression built from any subset of the optional criteria
\* (company, year or list of years, docType, min_page, max_page, s3_prefix) is
\* satisfied by a chunk if and only if every supplied criterion holds for the
\* chunk; a criterion left out adds no condition, and with none supplied
\* there is no filter and every chunk is retrieved.
C10_FilterIsConjunctionOfCriteria ==
    /\ fpc = "done" =>
         (matched <=>
            /\ criteria.company.given => chunk.company = criteria.company.v
            /\ criteria.year.given =>
                  IF criteria.year.isList
                  THEN chunk.year \in Range(criteria.year.vs)
                  ELSE chunk.year = criteria.year.v
            /\ criteria.docType.given => chunk.docType = criteria.docType.v
            /\ criteria.min_page.given => chunk.page >= criteria.min_page.v
            /\ criteria.max_page.given => chunk.page <= criteria.max_page.v
            /\ criteria.s3_prefix.given =>
                  /\ Len(chunk.uri) >= Len(criteria.s3_prefix.v)
                  /\ \A i \in DOMAIN criteria.s3_prefix.v :
                        chunk.uri[i] = criteria.s3_prefix.v[i])
    /\ (fpc \in {"sent", "done"} /\ criteria = NoCriteria)
          => metadata_filter = NoFilter
    /\ (fpc = "done" /\ criteria = NoCriteria) => matched

C10_Witness ==
    /\ fpc = "done"
    /\ matched
    /\ criteria.company.given
    /\ criteria.year.given /\ criteria.year.isList /\ Len(criteria.year.vs) = 2
    /\ criteria.docType.given
    /\ criteria.min_page.given
    /\ criteria.max_page.given
    /\ criteria.s3_prefix.given
    /\ chunk.page = 2
    /\ metadata_filter.op = "andAll"
    /\ Len(metadata_filter.children) = 6

\* The call of cell 053bd52b: company="Amazon", year=[2023, 2024].
AmazonTwoYears ==
    [NoCriteria EXCEPT !.company = Given("Amazon"),
                       !.year = GivenList(<<2023, 2024>>)]

YearLeaves(years) == {Leaf("equals", "year", y) : y \in years}

\* C11: a list of years becomes an OR node over one equality leaf per year,
\* nested in the conjunction: the filter built for year=[2023, 2024] and
\* company='Amazon' is the AND of (OR of year = 2023, year = 2024) and
\* (company equals Amazon), and a chunk matches it exactly when its company
\* is Amazon and its year is 2023 or 2024.
C11_YearListIsOrOfEquals ==
    /\ (fpc \in {"sent", "done"} /\ criteria = AmazonTwoYears) =>
          /\ metadata_filter.op = "andAll"
          /\ Len(metadata_filter.children) = 2
          /\ \E i, j \in 1..2 :
                /\ metadata_filter.children[i] =
                      Leaf("equals", "company", "Amazon")
                /\ metadata_filter.children[j].op = "orAll"
                /\ Len(metadata_filter.children[j].children) = 2
                /\ Range(metadata_filter.children[j].children) =
                      YearLeaves({2023, 2024})
    /\ (fpc = "done" /\ criteria = AmazonTwoYears) =>
          (matched <=> (chunk.company = "Amazon" /\ chunk.year \in {2023, 2024}))
    /\ (fpc \in {"sent", "done"} /\ criteria.year.given /\ criteria.year.isList
           /\ Len(criteria.year.vs) > 1) =>
          LET orNode == OrAll([i \in 1..Len(criteria.year.vs) |->
                                 Leaf("equals", "year", criteria.year.vs[i])])
          IN IF metadata_filter.op = "andAll"
             THEN \E i \in DOMAIN metadata_filter.children :
                     metadata_filter.children[i] = orNode
             ELSE metadata_filter = orNode

C11_Witness ==
    /\ fpc = "done"
    /\ criteria = AmazonTwoYears
    /\ chunk.company = "Amazon"
    /\ chunk.year = 2024
    /\ matched
    /\ metadata_filter.op = "andAll"

\* Operators of the leaves of a filter.
LeafOperators == {"equals", "greaterThanOrEquals", "lessThanOrEquals",
                  "startsWith"}

IsLeaf(f) == f.op \in LeafOperators /\ DOMAIN f = {"op", "key", "value"}

\* A tree of AND nodes over leaves.
RECURSIVE AndTree(_)
AndTree(f) ==
    IF f.op = "andAll"
    THEN /\ DOMAIN f = {"op", "children"}
         /\ f.children # <<>>
         /\ \A i \in DOMAIN f.children : AndTree(f.children[i])
    ELSE IsLeaf(f)

\* An OR node over equality leaves on the year.
YearOrNode(f) ==
    /\ f.op = "orAll"
    /\ DOMAIN f = {"op", "children"}
    /\ f.children # <<>>
    /\ \A i \in DOMAIN f.children :
          /\ IsLeaf(f.children[i])
          /\ f.children[i].op = "equals"
          /\ f.children[i].key = "year"

\* A tree of AND nodes over leaves and OR nodes of year equality leaves.
RECURSIVE AndTreeWithYearOr(_)
AndTreeWithYearOr(f) ==
    IF f.op = "andAll"
    THEN /\ DOMAIN f = {"op", "children"}
         /\ f.children # <<>>
         /\ \A i \in DOMAIN f.children : AndTreeWithYearOr(f.children[i])
    ELSE IF f.op = "orAll" THEN YearOrNode(f)
    ELSE IsLeaf(f)

\* The filters sent to the remote API so far.
SentFilters ==
    (IF fpc \in {"sent", "done"} /\ metadata_filter # NoFilter
     THEN {metadata_filter} ELSE {})
        \cup (IF fpc \in {"std_built", "std_done"} THEN {one_group_filter} ELSE {})

C13_StandardFilterIsTwoEquals ==
    LET dt == IF std_call.style = "positional" THEN std_call.first
              ELSE std_call.docType
        y == IF std_call.style = "positional" THEN std_call.second
             ELSE std_call.year
    IN /\ fpc \in {"std_built", "std_done"} =>
             /\ one_group_filter.op = "andAll"
             /\ Len(one_group_filter.children) = 2
             /\ Range(one_group_filter.children) =
                   {Leaf("equals", "docType", dt), Leaf("equals", "year", y)}
       /\ fpc = "std_done" =>
             (matched <=> (chunk.docType = dt /\ chunk.year = y))

C13_Witness ==
    /\ fpc = "std_done"
    /\ std_call = PositionalCall("10K Report", 2023)
    /\ chunk.docType = "10K Report"
    /\ chunk.year = 2023
    /\ matched

\* Number of rows on the pages before page p.
RECURSIVE RowsBefore(_, _)
RowsBefore(pages, p) ==
    IF p = 1 THEN 0 ELSE RowsBefore(pages, p - 1) + Len(pages[p - 1])

TotalRows(pages) == RowsBefore(pages, Len(pages) + 1)

\* The values of a row as the function shows them.
ShownAs(values, row) ==
    /\ Len(values) = Len(row)
    /\ \A k \in DOMAIN row :
          values[k] = IF row[k] = NoValue THEN "" ELSE row[k]

\* C15: after SUCCEEDED the function collects the rows of all result pages
\* in page order and row order, a field without VarCharValue as the empty
\* string; with at least one row it displays a table whose columns are the
\* first row and whose data rows are the remaining rows in the same order
\* (none for a header-only result); with no row it prints
\* 'Successfully executed.' and displays no table.
C15_RowsOfAllPagesInOrder ==
    /\ (pc \in {"show", "returned"} /\ response.state = "SUCCEEDED") =>
          /\ Len(results) = TotalRows(fetched)
          /\ \A p \in DOMAIN fetched : \A r \in DOMAIN fetched[p] :
                ShownAs(results[RowsBefore(fetched, p) + r], fetched[p][r])
    /\ (pc = "returned" /\ response.state = "SUCCEEDED") =>
          LET shown == out[Len(out)] IN
          /\ out # <<>>
          /\ shown.cell = cell
          /\ IF Len(results) >= 1
             THEN /\ shown.kind = "table"
                  /\ shown.columns = results[1]
                  /\ Len(shown.rows) = Len(results) - 1
                  /\ \A i \in DOMAIN shown.rows : shown.rows[i] = results[i + 1]
                  /\ Count(trace, "table") = 1
                  /\ Count(trace, "print") = 0
             ELSE /\ shown = Printed(cell, "Successfully executed.")
                  /\ Count(trace, "print") = 1
                  /\ Count(trace, "table") = 0

C15_Witness ==
    /\ pc = "returned"
    /\ response.state = "SUCCEEDED"
    /\ Len(fetched) = 2
    /\ Len(fetched[2]) = 2
    /\ Len(results) = 3
    /\ results[3][1] = ""
    /\ out[Len(out)].kind = "table"
    /\ Len(out[Len(out)].rows) = 2

RECURSIVE ModelAbove(_, _)
ModelAbove(tool, k) ==
    IF ToolsCellStatements[k].stmt = "def" /\ ToolsCellStatements[k].value = tool
    THEN ToolsCellStatements[k - 1].value
    ELSE ModelAbove(tool, k + 1)

\* C16: whenever the orchestrator invokes a tool, the inner agent of the tool
\* runs on the model assigned immediately above the definition of the tool:
\* nova-pro for investment_research_assistant, nova-lite for
\* budget_optimizer_assistant, nova-micro for financial_planner_assistant.
C16_ToolUsesTheModelAboveIt ==
    \A i \in DOMAIN toolCalls :
       /\ toolCalls[i].model = ModelAbove(toolCalls[i].tool, 1)
       /\ toolCalls[i].tool = "investment_research_assistant"
             => toolCalls[i].model = "us.amazon.nova-pro-v1:0"
       /\ toolCalls[i].tool = "budget_optimizer_assistant"
             => toolCalls[i].model = "us.amazon.nova-lite-v1:0"
       /\ toolCalls[i].tool = "financial_planner_assistant"
             => toolCalls[i].model = "us.amazon.nova-micro-v1:0"

\* C17: when the cells run top to bottom, the agent that receives the
\* prompts of Use Case 6, 7 and 8 has the python_repl tool.
C17_AgentHasPythonRepl ==
    \A i \in DOMAIN prompts :
       prompts[i].cell \in {"uc6", "uc7", "uc8"}
          => "python_repl" \in prompts[i].tools

\* The run began with everything an earlier complete run leaves behind.
SecondRun ==
    /\ cell # "off"
    /\ resourcesBefore = [bucket |-> TRUE, db |-> TRUE,
                          objects |-> {OrdersKey, ReturnsKey}]
    /\ existedBefore = {"orders", "returns"}

\* The services answered every call made so far without a fault of their own.
NoServiceFault ==
    /\ error \notin {"ClientCreationError", "NameError", "OtherError",
                      "orders_read_error", "returns_read_error",
                      "orders_write_error", "returns_write_error"}
    /\ \A id \in DOMAIN remote : remote[id].state \notin {"FAILED", "CANCELLED"}

\* C18: a run of the data-loading notebook that finds the bucket, the
\* database, both tables and the CSV objects of an earlier run is not stopped
\* by any of them (a cell ends with an exception only when a service call
\* itself fails), it ends after the last cell, and it leaves the same
\* bucket, database, tables and CSV objects.
C18_SecondRunIsIdempotent ==
    SecondRun =>
       /\ bucketExists /\ dbExists
       /\ tables = {"orders", "returns"}
       /\ objects = {"data/orders/orders.csv", "data/returns/returns.csv"}
       /\ NoServiceFault => (error = "none" /\ cell # "aborted")
       /\ bucketOutcome \in {"not called", "BucketAlreadyOwnedByYou", "OtherError"}
       /\ dbOutcome \in {"not called", "AlreadyExistsException", "OtherError"}
       /\ (cell = "end" /\ bucketOutcome = "BucketAlreadyOwnedByYou")
             => <<"bucket", "BucketAlreadyOwnedByYou">> \in caught
       /\ (cell = "end" /\ dbOutcome = "AlreadyExistsException")
             => <<"database", "AlreadyExistsException">> \in caught

C18_Witness ==
    /\ SecondRun
    /\ cell = "end"
    /\ error = "none"
    /\ bucketOutcome = "BucketAlreadyOwnedByYou"
    /\ dbOutcome = "AlreadyExistsException"
    /\ Len(remote) = 4
    /\ tables = {"orders", "returns"}

\* C19: in the bucket cell and in the database cell any exception other than
\* the already-exists one (a failing create call, or a service client that
\* cannot be created) leaves the cell as that same exception, and the cell
\* prints no message.
C19_OtherExceptionsPassUnchanged ==
    /\ (failedCell = "bucket") =>
          /\ error = (IF bucketOutcome = "not called" THEN "ClientCreationError"
                      ELSE bucketOutcome)
          /\ CellOut("bucket") = <<>>
    /\ (failedCell = "database") =>
          /\ error = (IF dbOutcome = "not called" THEN "ClientCreationError"
                      ELSE dbOutcome)
          /\ CellOut("database") = <<>>

\* Position of the first "/" piece of a string from piece k on, 0 if none.
RECURSIVE FirstSlash(_, _)
FirstSlash(str, k) ==
    IF k > Len(str) THEN 0
    ELSE IF str[k] = "/" THEN k
    ELSE FirstSlash(str, k + 1)

\* Position of the last "/" piece of a string up to piece k, 0 if none.
RECURSIVE LastSlash(_, _)
LastSlash(str, k) ==
    IF k = 0 THEN 0
    ELSE IF str[k] = "/" THEN k
    ELSE LastSlash(str, k - 1)

\* Bucket and key of an S3 URI "s3://bucket/key".
UriBucket(uri) ==
    LET i == FirstSlash(uri, 2)
    IN IF i = 0 THEN SubSeq(uri, 2, Len(uri)) ELSE SubSeq(uri, 2, i - 1)

UriKey(uri) ==
    LET i == FirstSlash(uri, 2)
    IN IF i = 0 THEN <<>> ELSE SubSeq(uri, i + 1, Len(uri))

\* A key without a trailing "/".
Folder(key) ==
    IF key # <<>> /\ key[Len(key)] = "/" THEN SubSeq(key, 1, Len(key) - 1)
    ELSE key

\* The prefix an object key lies under: the key up to its last "/".
KeyPrefix(key) ==
    LET i == LastSlash(key, Len(key))
    IN IF i = 0 THEN <<>> ELSE SubSeq(key, 1, i - 1)

\* The URI lies at or below the folder of the location.
InsideLocation(uri, location) ==
    /\ UriBucket(uri) = UriBucket(location)
    /\ LET f == Folder(UriKey(location))
           k == Folder(UriKey(uri))
       IN \/ k = f
          \/ /\ Len(k) > Len(f)
             /\ SubSeq(k, 1, Len(f)) = f
             /\ k[Len(f) + 1] = "/"

UploadedAs(file) ==
    {u \in uploaded : u[Len(u)] = file}

\* C20: for every account id and region the LOCATION of the orders table is
\* the S3 prefix orders.csv is uploaded under and the LOCATION of the returns
\* table the prefix returns.csv is uploaded under, both in the bucket the
\* notebook creates, and the Athena query-output location lies inside
\* neither table location.
C20_TablesPointAtTheUploads ==
    lpc = "done" =>
       /\ \A t \in {"orders", "returns"} :
             /\ Cardinality(UploadedAs(t \o ".csv")) = 1
             /\ \A u \in UploadedAs(t \o ".csv") :
                   /\ UriBucket(u) = UriBucket(tableLocation[t])
                   /\ KeyPrefix(UriKey(u)) = Folder(UriKey(tableLocation[t]))
                   /\ KeyPrefix(UriKey(u)) = <<"data", "/", t>>
                   /\ InsideLocation(u, tableLocation[t])
             /\ UriBucket(tableLocation[t]) = createdBucket
             /\ ~InsideLocation(queryOutput, tableLocation[t])
       /\ UriBucket(queryOutput) = createdBucket
       /\ createdBucket =
             <<account_id, "-", region, "-s3-retail-db-for-agent-example">>
       /\ ~InsideLocation(UploadUri(createdBucket, "orders"),
                          tableLocation["returns"])

C20_Witness ==
    /\ lpc = "done"
    /\ account_id = "444455556666"
    /\ region = "eu-west-1"
    /\ tableLocation["orders"][2] = "444455556666"
    /\ Cardinality(uploaded) = 2


\* The calls of one with/without pair: an odd call and the call after it.
GuardrailPairs == {i \in DOMAIN calls : i % 2 = 1 /\ i + 1 \in DOMAIN calls}

SameButGuardrail(a, b) ==
    /\ a.query = b.query
    /\ a.knowledge_base_id = b.knowledge_base_id
    /\ a.model_arn = b.model_arn
    /\ a.bedrock_client = b.bedrock_client
    /\ a.metadata_filter = b.metadata_filter

PassesGuardrail(a) ==
    a.guardrail_id # NotPassed /\ a.guardrail_version # NotPassed

PassesNoGuardrail(a) ==
    a.guardrail_id = NotPassed /\ a.guardrail_version = NotPassed

\* C21: in each with/without-guardrails pair of calls the two calls pass the
\* same query, knowledge base id, model ARN, client and metadata filter, the
\* filter is the same object value at both calls, guardrail id and version
\* are passed exactly when use_guardrails is True, and the two requests
\* differ only in the guardrail reference.
C21_PairDiffersOnlyInGuardrail ==
    rnb = "guardrails" =>
       /\ \A i \in DOMAIN calls :
             /\ calls[i].args.use_guardrails = (i % 2 = 0)
             /\ IF calls[i].args.use_guardrails
                THEN PassesGuardrail(calls[i].args)
                ELSE PassesNoGuardrail(calls[i].args)
             /\ calls[i].args.metadata_filter = calls[i].filterBefore
       /\ \A i \in GuardrailPairs :
             /\ SameButGuardrail(calls[i].args, calls[i + 1].args)
             /\ calls[i].filterBefore = calls[i + 1].filterBefore
             /\ kernel.metadata_filter = calls[i].filterBefore
             /\ requests[i].guardrail = NoGuardrail
             /\ requests[i + 1].guardrail =
                   [id |-> rfile.guardrail_id,
                    version |-> rfile.guardrail_version]
             /\ [requests[i] EXCEPT !.guardrail = requests[i + 1].guardrail]
                   = requests[i + 1]

C21_Witness ==
    /\ rnb = "guardrails"
    /\ Len(calls) = 4
    /\ calls[1].args.query = AdviceQuery
    /\ calls[3].args.query = PiiQuery
    /\ calls[4].args.query = PiiQuery
    /\ requests[4].guardrail = [id |-> "gr-b", version |-> "DRAFT"]
    /\ requests[3].guardrail = NoGuardrail


\* C25: for every value of the configured regionName, the region of the
\* Bedrock client and the region embedded in the model resource name of each
\* request equal that configured region.
C25_RequestsUseTheConfiguredRegion ==
    \A i \in DOMAIN requests :
       /\ requests[i].client.region = rfile.regionName
       /\ ArnRegion(requests[i].modelArn) = rfile.regionName


HasRow(table, row) == \E i \in DOMAIN table : table[i] = row

\* C22: every chunking notebook that adds or updates its row in the cost
\* table has saved the table when it ends, and the table a later notebook
\* loads holds the cost row of every strategy run earlier.
C22_CostRowsReachLaterNotebooks ==
    /\ (CurrentCostCell = "end" /\ new_row # NoRow) => HasRow(costsCsv, new_row)
    /\ loadedTable # NoTable =>
          \A n \in ChunkingNotebooks :
             rowsEarlier[n] # NoRow => HasRow(loadedTable, rowsEarlier[n])


\* A file, not a directory, is at the path.
FileAt(path) == path \in DOMAIN fileSystem /\ fileSystem[path] # "directory"

\* The five outcomes of the diagram cell, and whether each was reported.
DiagramOutcomes ==
    {"image displayed", "file not found", "no valid path", "marker absent",
     "no text"}

OutcomeReported(o) ==
    CASE o = "image displayed" -> displayed # << >>
      [] o = "file not found" ->
            \E i \in DOMAIN reported : reported[i] = "Diagram file not found"
      [] o = "no valid path" ->
            \E i \in DOMAIN reported :
               reported[i] = "Could not find a valid diagram path"
      [] o = "marker absent" ->
            \E i \in DOMAIN reported :
               reported[i] = "Agent did not provide a diagram path"
      [] OTHER ->
            \E i \in DOMAIN reported :
               reported[i] = "No textual response extracted"

\* C23: in the diagram cell the image is displayed if and only if the
\* response text is non-empty, contains the marker, the path extracted after
\* the marker is non-empty and a file exists at that path; and every run
\* reports exactly one of the five outcomes.
C23_DisplayedIffFileAtExtractedPath ==
    dcell = "done" =>
       /\ displayed # << >> <=>
             /\ final_agent_response_text # << >>
             /\ Find(final_agent_response_text, path_marker, 1) # 0
             /\ diagram_path # NoPath
             /\ FileAt(diagram_path)
       /\ Cardinality({o \in DiagramOutcomes : OutcomeReported(o)}) = 1

\* C24: the extracted path is the text from behind the first marker to the
\* next newline, stripped of surrounding whitespace and then of backticks and
\* quotes; whenever the agent states the saved path in the format of the
\* system prompt, the extracted path is the path the agent stated.
C24_ExtractedPathIsTheStatedPath ==
    (dcell = "done" /\ stated # NoPath) =>
       /\ diagram_path = ExtractPath(final_agent_response_text)
       /\ diagram_path = stated

====
